---- MODULE Spec2Model ----
(***************************************************************************)
(* The transcript / hook-event indexer of transcript-tui-rs:               *)
(* crates/transcript-indexer (indexer.rs, hook_indexer.rs, correlation.rs, *)
(* schema.rs, rebuild.rs, adapter.rs, daemon.rs) and the tailing query of  *)
(* crates/transcript-db (queries.rs).                                      *)
(*                                                                         *)
(* A JSONL file is a sequence of tokens, one token per "byte":             *)
(*   <<"P", r>>  the leading part of the text of record r (begins with {)  *)
(*   <<"R", r>>  the rest of the text of record r                          *)
(*   <<"G">>     a line of text that is not JSON and does not begin with { *)
(*   <<"NL">>    a newline                                                 *)
(* so a byte offset is an index into the sequence and an offset may fall   *)
(* inside a record.  A record on a line of its own is P, R, NL.            *)
(*                                                                         *)
(* SQL NULL / Rust None is <<>>, a present value v is <<v>>.  A timestamp  *)
(* is a natural number, ordered as the ISO strings are ordered as TEXT;    *)
(* 0 is the empty string the indexers store when the field is missing.     *)
(***************************************************************************)
EXTENDS Integers, Sequences, FiniteSets, Bags, TLC

VARIABLES
    fs,          \* path -> the bytes of the JSONL file at that path
    db,          \* the store as the writer connection sees it
    savepoints,  \* savepoints opened and not released on the writer connection
    committed,   \* the store as committed (what a read-only handle sees)
    res,         \* path -> outcome of the latest index_*_file call on the path
    last,        \* the latest operation
    tail,        \* a tailing reader: its cursor and what it has received
    pending,     \* the daemon's channel: the paths of the events not yet received
    reader       \* the read-only handle: what TranscriptDb::open returned

vars == <<fs, db, savepoints, committed, res, last, tail, pending, reader>>

----------------------------------------------------------------------------
(* Bounds of the model *)

MaxLines == 2    \* lines a producer writes to one file
MaxId == 5       \* largest AUTOINCREMENT id handed out
MaxPolls == 2    \* polls of the tailing reader
MaxTrims == 2    \* applications of trim_value to one value
MaxOpen == 1     \* savepoints that failed calls leave open

----------------------------------------------------------------------------
(* Values *)

None == <<>>
Some(v) == <<v>>

DB_VERSION == 10

\* content_trimmer.rs: strings longer than this are trimmed
LARGE_THRESHOLD == 1024
HANDLER_THRESHOLD == 4096

\* content_trimmer.rs: the bytes of a preview, the protected keys
PREVIEW_LENGTH == 500
FULL_PAYLOAD_FIELDS == {"prompt"}

\* The skip list, were "progress" missing from it
SkipTypesWithoutProgress == {"file-history-snapshot", "queue-operation"}

SKIP_TYPES == {"progress", "file-history-snapshot", "queue-operation"}

\* discovery::find_transcript_files / find_hook_files: the files found, sorted
TranscriptFiles == <<"a.jsonl">>
HookFiles == <<"a.hooks.jsonl">>

Paths == {TranscriptFiles[i] : i \in DOMAIN TranscriptFiles}
            \cup {HookFiles[i] : i \in DOMAIN HookFiles}

\* A transcript record: the fields of the JSON object the indexer reads.
\* sessionId "" and uuid None stand for an absent field.
TRec(sid, uuid, ty, ts, text) ==
    [sessionId |-> sid, uuid |-> uuid, type |-> ty, timestamp |-> ts, text |-> text]

\* A hook record.  turnId / turnSequence / sessionName are what
\* extract_handler_data finds (handler results or top-level fallbacks).
HRec(sid, ev, ts, tid, tseq, name) ==
    [sessionId |-> sid, eventType |-> ev, timestamp |-> ts,
     turnId |-> tid, turnSequence |-> tseq, sessionName |-> name,
     toolName |-> None, input |-> None, context |-> None,
     handlerResults |-> None]

\* A string is a sequence of runs of one character: the character, the
\* bytes of its UTF-8 encoding, how many of it
Run(ch, width, n) == IF n = 0 THEN <<>> ELSE <<[ch |-> ch, width |-> width, n |-> n]>>
Str(ch, width, n) == Run(<<ch>>, width, n)
Ascii(n) == Str("x", 1, n)

\* s.len(): the bytes of the string
RECURSIVE str_len(_)
str_len(s) == IF s = <<>> THEN 0 ELSE s[1].width * s[1].n + str_len(Tail(s))

\* A serde_json::Value; a JSON text is kept as the value it serialises
JString(s) == [kind |-> "string", s |-> s]
JNumber(n) == [kind |-> "number", n |-> n]
JNull == [kind |-> "null"]
JObject(fields) == [kind |-> "object", fields |-> fields]
JArray(items) == [kind |-> "array", items |-> items]

RecordLine(r) == << <<"P", r>>, <<"R", r>>, <<"NL">> >>
GarbageLine == << <<"G">>, <<"NL">> >>
BlankLine == << <<"NL">> >>
\* A line of bytes that are not UTF-8
InvalidLine == << <<"X">>, <<"NL">> >>

----------------------------------------------------------------------------
(* Reading a file: BufReader::lines() from a byte offset *)

\* The lines of a byte sequence: split at newlines; a last line without a
\* newline is a line too, and nothing follows a final newline.
RECURSIVE SplitLines(_, _)
SplitLines(bytes, cur) ==
    IF bytes = <<>> THEN (IF cur = <<>> THEN <<>> ELSE <<cur>>)
    ELSE IF Head(bytes) = <<"NL">> THEN <<cur>> \o SplitLines(Tail(bytes), <<>>)
    ELSE SplitLines(Tail(bytes), Append(cur, Head(bytes)))

\* Reading from the start of the line the offset lies in, were the reader
\* to seek back to it
ReadLinesFromLineStart(bytes, from_byte_offset) ==
    LET starts == {j \in 0..from_byte_offset : j = 0 \/ bytes[j] = <<"NL">>}
        start == CHOOSE j \in starts : \A k \in starts : k <= j
    IN  SplitLines(SubSeq(bytes, start + 1, Len(bytes)), <<>>)

ReadLines(bytes, from_byte_offset) ==
    SplitLines(SubSeq(bytes, from_byte_offset + 1, Len(bytes)), <<>>)

\* line_result is Err: BufReader::lines() cannot decode the line
ReadFails(line) == \E i \in DOMAIN line : line[i][1] = "X"

\* raw_line.starts_with('{')
StartsWithBrace(line) == line # <<>> /\ line[1][1] = "P"

\* serde_json::from_str(trimmed) is Ok: the whole text of one record
IsJson(line) ==
    /\ Len(line) = 2
    /\ line[1][1] = "P" /\ line[2][1] = "R"
    /\ line[1][2] = line[2][2]

Parsed(line) == line[1][2]

----------------------------------------------------------------------------
(* The store *)

\* schema.rs init_schema on no file: every table exists and is empty.
\* seq_lines / seq_hooks are the AUTOINCREMENT counters (sqlite_sequence).
\* version / last_indexed are the two metadata rows.
\* The schema objects init_schema creates beside metadata
DataTables == {"lines", "sessions", "hook_events", "hook_files", "adapter_cursors"}
FtsTables == {"lines_fts", "hook_events_fts"}
Triggers == {"lines_ai", "lines_ad", "lines_au",
             "hook_events_ai", "hook_events_ad", "hook_events_au"}
SchemaObjects == DataTables \cup FtsTables \cup Triggers

\* lines and hook_events as a schema before v5 created them have no turn_id,
\* turn_sequence, session_name columns, and before v8 no git_hash,
\* git_branch, git_dirty columns.  The marker is among `objects` while the
\* two tables exist without the columns.
MissingColumns == {"no_turn_columns", "no_git_columns"}

\* objects are the tables and triggers that exist; a table that does not
\* exist is kept empty.  exists: the store file is on disk.
EmptyTables ==
    [lines |-> {}, lines_fts |-> EmptyBag, seq_lines |-> 0,
     hook_events |-> {}, hook_events_fts |-> EmptyBag, seq_hooks |-> 0,
     sessions |-> {}, hook_files |-> {}, adapter_cursors |-> {},
     objects |-> SchemaObjects, exists |-> TRUE,
     version |-> None, last_indexed |-> None]

\* No store file at the path
NoFile == [EmptyTables EXCEPT !.objects = {}, !.exists = FALSE]

\* The FTS sync triggers on lines (the index is a bag of rowids)
lines_ai(fts, new) == fts (+) SetToBag({new.id})
lines_ad(fts, old) == fts (-) SetToBag({old.id})
lines_au(fts, old, new) == (fts (-) SetToBag({old.id})) (+) SetToBag({new.id})

hook_events_ai(fts, new) == fts (+) SetToBag({new.id})
hook_events_ad(fts, old) == fts (-) SetToBag({old.id})

\* A statement on the writer connection: in autocommit mode (no savepoint
\* open) it commits at once.
Exec(c, newdb) ==
    [c EXCEPT !.db = newdb, !.committed = IF c.sp = 0 THEN newdb ELSE @]

Savepoint(c) == [c EXCEPT !.sp = @ + 1]

\* RELEASE of the innermost savepoint; releasing the outermost one commits.
Release(c) ==
    [c EXCEPT !.sp = @ - 1, !.committed = IF c.sp = 1 THEN c.db ELSE @]

Conn == [db |-> db, sp |-> savepoints, committed |-> committed]

\* SELECT ... FROM sessions / hook_files WHERE file_path = ?1 (.ok())
CursorRow(table, path) ==
    IF \E row \in table : row.file_path = path
    THEN Some(CHOOSE row \in table : row.file_path = path)
    ELSE None

\* INSERT OR REPLACE INTO sessions / hook_files (file_path is the primary key)
ReplaceCursorRow(table, row) ==
    {x \in table : x.file_path # row.file_path} \cup {row}

\* An insert that fails: either the statement alone is undone and the
\* transaction stays open, or SQLite rolls the whole transaction back.
NoFault == [path |-> "", at |-> 0, rollback |-> FALSE]

FaultOn(fault, path) == IF fault.path = path THEN fault ELSE NoFault

FailedStatement(c, fault) ==
    IF fault.rollback /\ c.sp > 0
    THEN [c EXCEPT !.db = c.committed, !.sp = 0]
    ELSE c

----------------------------------------------------------------------------
(* indexer.rs *)

extract_searchable_text(parsed) == parsed.text

\* uuid, or format!("line-{}", line_number) when the record has none
LineUuid(parsed, line_number) ==
    IF parsed.uuid # None THEN parsed.uuid[1]
    ELSE "line-" \o ToString(line_number)

\* A plain INSERT INTO lines, were the statement written without OR REPLACE
InsertLine(d, row) ==
    LET new == [row EXCEPT !.id = d.seq_lines + 1]
    IN  [d EXCEPT !.lines = @ \cup {new},
                  !.seq_lines = new.id,
                  !.lines_fts = lines_ai(@, new)]

\* INSERT OR REPLACE INTO lines: a row with the same (session_id, uuid) is
\* deleted first.  The connection never turns recursive_triggers on, so this
\* delete fires no lines_ad trigger; the insert fires lines_ai.
InsertOrReplaceLine(d, row) ==
    LET conflict == {l \in d.lines :
                        l.session_id = row.session_id /\ l.uuid = row.uuid}
        new == [row EXCEPT !.id = d.seq_lines + 1]
    IN  [d EXCEPT !.lines = (@ \ conflict) \cup {new},
                  !.seq_lines = new.id,
                  !.lines_fts = lines_ai(@, new)]

\* One iteration, were a line that is not JSON to leave the line counter alone
TranscriptLineNotCounted(st, raw_line, path, fault) ==
    IF st.err THEN st
    ELSE IF ReadFails(raw_line)
    THEN [st EXCEPT !.line_number = @ + 1]
    ELSE IF st.first_line /\ ~StartsWithBrace(raw_line)
    THEN [st EXCEPT !.first_line = FALSE, !.line_number = @ + 1]
    ELSE IF raw_line = <<>>
    THEN [st EXCEPT !.first_line = FALSE]
    ELSE IF ~IsJson(raw_line)
    THEN [st EXCEPT !.first_line = FALSE]
    ELSE
    LET parsed == Parsed(raw_line)
        s1 == [st EXCEPT
                 !.first_line = FALSE,
                 !.session_id = IF parsed.sessionId # "" THEN parsed.sessionId ELSE @,
                 !.first_timestamp =
                     IF @ = None /\ parsed.timestamp # 0
                     THEN Some(parsed.timestamp) ELSE @,
                 !.last_timestamp =
                     IF parsed.timestamp # 0 THEN Some(parsed.timestamp) ELSE @]
        row == [id |-> 0,
                session_id |-> s1.session_id,
                uuid |-> LineUuid(parsed, st.line_number),
                line_number |-> st.line_number,
                type |-> parsed.type,
                timestamp |-> parsed.timestamp,
                content |-> extract_searchable_text(parsed),
                file_path |-> path,
                turn_id |-> None, turn_sequence |-> None, session_name |-> None]
    IN  IF parsed.type \in SKIP_TYPES
        THEN [s1 EXCEPT !.line_number = @ + 1]
        ELSE IF fault.at = st.inserts + 1
        THEN [s1 EXCEPT !.err = TRUE, !.c = FailedStatement(@, fault)]
        ELSE [s1 EXCEPT !.c = Exec(@, InsertOrReplaceLine(@.db, row)),
                        !.indexed_count = @ + 1,
                        !.inserts = @ + 1,
                        !.line_number = @ + 1]

\* One iteration of the loop over reader.lines()
TranscriptLine(st, raw_line, path, fault) ==
    IF st.err THEN st
    ELSE IF ReadFails(raw_line)
    THEN [st EXCEPT !.line_number = @ + 1]
    ELSE IF st.first_line /\ ~StartsWithBrace(raw_line)
    THEN [st EXCEPT !.first_line = FALSE, !.line_number = @ + 1]
    ELSE IF raw_line = <<>>
    THEN [st EXCEPT !.first_line = FALSE]
    ELSE IF ~IsJson(raw_line)
    THEN [st EXCEPT !.first_line = FALSE, !.line_number = @ + 1]
    ELSE
    LET parsed == Parsed(raw_line)
        s1 == [st EXCEPT
                 !.first_line = FALSE,
                 !.session_id = IF parsed.sessionId # "" THEN parsed.sessionId ELSE @,
                 !.first_timestamp =
                     IF @ = None /\ parsed.timestamp # 0
                     THEN Some(parsed.timestamp) ELSE @,
                 !.last_timestamp =
                     IF parsed.timestamp # 0 THEN Some(parsed.timestamp) ELSE @]
        row == [id |-> 0,
                session_id |-> s1.session_id,
                uuid |-> LineUuid(parsed, st.line_number),
                line_number |-> st.line_number,
                type |-> parsed.type,
                timestamp |-> parsed.timestamp,
                content |-> extract_searchable_text(parsed),
                file_path |-> path,
                turn_id |-> None, turn_sequence |-> None, session_name |-> None]
    IN  IF parsed.type \in SKIP_TYPES
        THEN [s1 EXCEPT !.line_number = @ + 1]
        ELSE IF fault.at = st.inserts + 1
        THEN [s1 EXCEPT !.err = TRUE, !.c = FailedStatement(@, fault)]
        ELSE [s1 EXCEPT !.c = Exec(@, InsertOrReplaceLine(@.db, row)),
                        !.indexed_count = @ + 1,
                        !.inserts = @ + 1,
                        !.line_number = @ + 1]

RECURSIVE TranscriptLoop(_, _, _, _)
TranscriptLoop(st, raw_lines, path, fault) ==
    IF raw_lines = <<>> THEN st
    ELSE TranscriptLoop(TranscriptLine(st, Head(raw_lines), path, fault),
                        Tail(raw_lines), path, fault)

\* The sessions row written after the loop
UpdateSessions(d, path, from_byte_offset, st, file_size) ==
    IF from_byte_offset = 0
    THEN [d EXCEPT !.sessions = ReplaceCursorRow(@,
            [file_path |-> path,
             session_id |-> IF st.session_id = "" THEN "unknown" ELSE st.session_id,
             line_count |-> st.line_number - 1,
             byte_offset |-> file_size,
             first_timestamp |-> st.first_timestamp,
             last_timestamp |-> st.last_timestamp])]
    ELSE [d EXCEPT !.sessions =
            {IF row.file_path = path
             THEN [row EXCEPT !.line_count = st.line_number - 1,
                              !.byte_offset = file_size,
                              !.last_timestamp = st.last_timestamp]
             ELSE row : row \in @}]

\* index_transcript_file(conn, file_path, from_byte_offset, start_line_number)
\* on a file holding `bytes`; yields the connection afterwards and the Result.
\* index_transcript_file where fs::metadata saw the file at file_size bytes and the reader,
\* opened after it, reads `bytes` to the end of the file as it is by then
index_transcript_file_racing(c, path, file_size, bytes, from_byte_offset, start_line_number, fault) ==
    IF from_byte_offset >= file_size
    THEN [c |-> c,
          result |-> [status |-> "ok", indexed |-> 0, from |-> from_byte_offset,
                      byte_offset |-> from_byte_offset, file_size |-> file_size]]
    ELSE
    LET st0 == [c |-> Savepoint(c),
                line_number |-> start_line_number,
                session_id |-> "",
                first_timestamp |-> None,
                last_timestamp |-> None,
                indexed_count |-> 0,
                inserts |-> 0,
                first_line |-> from_byte_offset > 0,
                err |-> FALSE]
        st == TranscriptLoop(st0, ReadLines(bytes, from_byte_offset), path, fault)
        released == Release(st.c)
    IN  IF st.err
        THEN [c |-> st.c,
              result |-> [status |-> "err", indexed |-> 0, from |-> from_byte_offset,
                          byte_offset |-> 0, file_size |-> file_size]]
        ELSE [c |-> Exec(released,
                         UpdateSessions(released.db, path, from_byte_offset, st, file_size)),
              result |-> [status |-> "ok", indexed |-> st.indexed_count,
                          from |-> from_byte_offset,
                          byte_offset |-> file_size, file_size |-> file_size]]

\* No write falls between the size stat and the read
index_transcript_file(c, path, bytes, from_byte_offset, start_line_number, fault) ==
    index_transcript_file_racing(c, path, Len(bytes), bytes, from_byte_offset,
                         start_line_number, fault)

----------------------------------------------------------------------------
(* hook_indexer.rs *)

\* INSERT INTO hook_events: always a new row; fires hook_events_ai.
InsertHookEvent(d, row) ==
    LET new == [row EXCEPT !.id = d.seq_hooks + 1]
    IN  [d EXCEPT !.hook_events = @ \cup {new},
                  !.seq_hooks = new.id,
                  !.hook_events_fts = hook_events_ai(@, new)]

\* One iteration of the loop over reader.lines()
HookLine(st, raw_line, path, fault) ==
    IF st.err THEN st
    ELSE IF ReadFails(raw_line)
    THEN [st EXCEPT !.line_number = @ + 1]
    ELSE IF st.first_line /\ ~StartsWithBrace(raw_line)
    THEN [st EXCEPT !.first_line = FALSE, !.line_number = @ + 1]
    ELSE IF raw_line = <<>>
    THEN [st EXCEPT !.first_line = FALSE]
    ELSE IF ~IsJson(raw_line)
    THEN [st EXCEPT !.first_line = FALSE, !.line_number = @ + 1]
    ELSE
    LET parsed == Parsed(raw_line)
        s1 == [st EXCEPT
                 !.first_line = FALSE,
                 !.session_id = IF parsed.sessionId # "" THEN parsed.sessionId ELSE @,
                 !.first_timestamp =
                     IF @ = None /\ parsed.timestamp # 0
                     THEN Some(parsed.timestamp) ELSE @,
                 !.last_timestamp =
                     IF parsed.timestamp # 0 THEN Some(parsed.timestamp) ELSE @]
        row == [id |-> 0,
                session_id |-> s1.session_id,
                timestamp |-> parsed.timestamp,
                event_type |-> parsed.eventType,
                tool_name |-> parsed.toolName,
                handler_results |-> parsed.handlerResults,
                input_json |-> parsed.input,
                context_json |-> parsed.context,
                file_path |-> path,
                line_number |-> st.line_number,
                turn_id |-> parsed.turnId,
                turn_sequence |-> parsed.turnSequence,
                session_name |-> parsed.sessionName]
    IN  IF fault.at = st.inserts + 1
        THEN [s1 EXCEPT !.err = TRUE, !.c = FailedStatement(@, fault)]
        ELSE [s1 EXCEPT !.c = Exec(@, InsertHookEvent(@.db, row)),
                        !.indexed_count = @ + 1,
                        !.inserts = @ + 1,
                        !.line_number = @ + 1]

RECURSIVE HookLoop(_, _, _, _)
HookLoop(st, raw_lines, path, fault) ==
    IF raw_lines = <<>> THEN st
    ELSE HookLoop(HookLine(st, Head(raw_lines), path, fault),
                  Tail(raw_lines), path, fault)

\* The hook_files row written after the loop ("Nothing to track" when no
\* line gave a session id and no event was inserted)
UpdateHookFiles(d, path, from_byte_offset, st, file_size) ==
    IF st.session_id = "" /\ st.indexed_count = 0
    THEN d
    ELSE IF from_byte_offset = 0
    THEN [d EXCEPT !.hook_files = ReplaceCursorRow(@,
            [file_path |-> path,
             session_id |-> IF st.session_id = "" THEN "unknown" ELSE st.session_id,
             event_count |-> st.line_number - 1,
             byte_offset |-> file_size,
             first_timestamp |-> st.first_timestamp,
             last_timestamp |-> st.last_timestamp])]
    ELSE [d EXCEPT !.hook_files =
            {IF row.file_path = path
             THEN [row EXCEPT !.event_count = st.line_number - 1,
                              !.byte_offset = file_size,
                              !.last_timestamp = st.last_timestamp]
             ELSE row : row \in @}]

\* index_hook_file(conn, file_path, from_byte_offset, start_line_number)
\* index_hook_file where fs::metadata saw the file at file_size bytes and the reader,
\* opened after it, reads `bytes` to the end of the file as it is by then
index_hook_file_racing(c, path, file_size, bytes, from_byte_offset, start_line_number, fault) ==
    IF from_byte_offset >= file_size
    THEN [c |-> c,
          result |-> [status |-> "ok", indexed |-> 0, from |-> from_byte_offset,
                      byte_offset |-> from_byte_offset, file_size |-> file_size]]
    ELSE
    LET st0 == [c |-> Savepoint(c),
                line_number |-> start_line_number,
                session_id |-> "",
                first_timestamp |-> None,
                last_timestamp |-> None,
                indexed_count |-> 0,
                inserts |-> 0,
                first_line |-> from_byte_offset > 0,
                err |-> FALSE]
        st == HookLoop(st0, ReadLines(bytes, from_byte_offset), path, fault)
        released == Release(st.c)
    IN  IF st.err
        THEN [c |-> st.c,
              result |-> [status |-> "err", indexed |-> 0, from |-> from_byte_offset,
                          byte_offset |-> 0, file_size |-> file_size]]
        ELSE [c |-> Exec(released,
                         UpdateHookFiles(released.db, path, from_byte_offset, st, file_size)),
              result |-> [status |-> "ok", indexed |-> st.indexed_count,
                          from |-> from_byte_offset,
                          byte_offset |-> file_size, file_size |-> file_size]]

\* No write falls between the size stat and the read
index_hook_file(c, path, bytes, from_byte_offset, start_line_number, fault) ==
    index_hook_file_racing(c, path, Len(bytes), bytes, from_byte_offset,
                         start_line_number, fault)

----------------------------------------------------------------------------
(* The whole-directory drivers of indexer.rs and hook_indexer.rs.  An error *)
(* of one file is printed and the loop goes on.                             *)

NoResult ==
    [status |-> "none", indexed |-> 0, from |-> 0, byte_offset |-> 0, file_size |-> 0]

RECURSIVE IndexAllFrom(_, _, _, _, _)
IndexAllFrom(acc, files, i, disk, fault) ==
    IF i > Len(files) THEN acc
    ELSE LET out == index_transcript_file(acc.c, files[i], disk[files[i]], 0, 1,
                                          FaultOn(fault, files[i]))
         IN  IndexAllFrom([c |-> out.c, res |-> [acc.res EXCEPT ![files[i]] = out.result]],
                          files, i + 1, disk, fault)

index_all_transcripts(c, r, disk, fault) ==
    LET done == IndexAllFrom([c |-> c, res |-> r], TranscriptFiles, 1, disk, fault)
    IN  [done EXCEPT !.c = Exec(@, [@.db EXCEPT !.last_indexed = Some("now")])]

\* The loop of update_transcripts, were a file that shrank below its cursor
\* read again from its start
RECURSIVE UpdateFromRewinding(_, _, _, _, _)
UpdateFromRewinding(acc, files, i, disk, fault) ==
    IF i > Len(files) THEN acc
    ELSE
    LET path == files[i]
        state == CursorRow(acc.c.db.sessions, path)
        file_size == Len(disk[path])
        rewind == state = None \/ state[1].byte_offset > file_size
        from_offset == IF rewind THEN 0 ELSE state[1].byte_offset
        start_line == IF rewind THEN 1 ELSE state[1].line_count + 1
        out == index_transcript_file(acc.c, path, disk[path], from_offset, start_line,
                                     FaultOn(fault, path))
    IN  IF state # None /\ state[1].byte_offset = file_size
        THEN UpdateFromRewinding(acc, files, i + 1, disk, fault)
        ELSE UpdateFromRewinding([c |-> out.c, res |-> [acc.res EXCEPT ![path] = out.result]],
                                 files, i + 1, disk, fault)

\* The loop of update_transcripts, were the first new line numbered
\* line_count
RECURSIVE UpdateFromLineCount(_, _, _, _, _)
UpdateFromLineCount(acc, files, i, disk, fault) ==
    IF i > Len(files) THEN acc
    ELSE
    LET path == files[i]
        state == CursorRow(acc.c.db.sessions, path)
        file_size == Len(disk[path])
        from_offset == IF state = None THEN 0 ELSE state[1].byte_offset
        start_line == IF state = None THEN 1 ELSE state[1].line_count
        out == index_transcript_file(acc.c, path, disk[path], from_offset, start_line,
                                     FaultOn(fault, path))
    IN  IF state # None /\ state[1].byte_offset >= file_size
        THEN UpdateFromLineCount(acc, files, i + 1, disk, fault)
        ELSE UpdateFromLineCount([c |-> out.c, res |-> [acc.res EXCEPT ![path] = out.result]],
                                 files, i + 1, disk, fault)

RECURSIVE UpdateFrom(_, _, _, _, _)
UpdateFrom(acc, files, i, disk, fault) ==
    IF i > Len(files) THEN acc
    ELSE
    LET path == files[i]
        state == CursorRow(acc.c.db.sessions, path)
        file_size == Len(disk[path])
        from_offset == IF state = None THEN 0 ELSE state[1].byte_offset
        start_line == IF state = None THEN 1 ELSE state[1].line_count + 1
        out == index_transcript_file(acc.c, path, disk[path], from_offset, start_line,
                                     FaultOn(fault, path))
    IN  IF state # None /\ state[1].byte_offset >= file_size
        THEN UpdateFrom(acc, files, i + 1, disk, fault)
        ELSE UpdateFrom([c |-> out.c, res |-> [acc.res EXCEPT ![path] = out.result]],
                        files, i + 1, disk, fault)

update_transcripts(c, r, disk, fault) ==
    LET done == UpdateFrom([c |-> c, res |-> r], TranscriptFiles, 1, disk, fault)
    IN  [done EXCEPT !.c = Exec(@, [@.db EXCEPT !.last_indexed = Some("now")])]

RECURSIVE IndexAllHooksFrom(_, _, _, _, _)
IndexAllHooksFrom(acc, files, i, disk, fault) ==
    IF i > Len(files) THEN acc
    ELSE LET out == index_hook_file(acc.c, files[i], disk[files[i]], 0, 1,
                                    FaultOn(fault, files[i]))
         IN  IndexAllHooksFrom([c |-> out.c, res |-> [acc.res EXCEPT ![files[i]] = out.result]],
                               files, i + 1, disk, fault)

index_all_hook_files(c, r, disk, fault) ==
    IndexAllHooksFrom([c |-> c, res |-> r], HookFiles, 1, disk, fault)

RECURSIVE UpdateHooksFrom(_, _, _, _, _)
UpdateHooksFrom(acc, files, i, disk, fault) ==
    IF i > Len(files) THEN acc
    ELSE
    LET path == files[i]
        state == CursorRow(acc.c.db.hook_files, path)
        file_size == Len(disk[path])
        from_offset == IF state = None THEN 0 ELSE state[1].byte_offset
        start_line == IF state = None THEN 1 ELSE state[1].event_count + 1
        out == index_hook_file(acc.c, path, disk[path], from_offset, start_line,
                               FaultOn(fault, path))
    IN  IF state # None /\ state[1].byte_offset >= file_size
        THEN UpdateHooksFrom(acc, files, i + 1, disk, fault)
        ELSE UpdateHooksFrom([c |-> out.c, res |-> [acc.res EXCEPT ![path] = out.result]],
                             files, i + 1, disk, fault)

update_hook_index(c, r, disk, fault) ==
    UpdateHooksFrom([c |-> c, res |-> r], HookFiles, 1, disk, fault)

----------------------------------------------------------------------------
(* adapter.rs: the cursor a built-in adapter reports *)

TranscriptLinesAdapter_get_cursor(d, path) ==
    LET row == CursorRow(d.sessions, path)
    IN  IF row = None THEN 0 ELSE row[1].byte_offset

HookEventsAdapter_get_cursor(d, path) ==
    LET row == CursorRow(d.hook_files, path)
    IN  IF row = None THEN 0 ELSE row[1].byte_offset

----------------------------------------------------------------------------
(* schema.rs, rebuild.rs *)

RECURSIVE DeleteLines(_, _)
\* DELETE FROM lines WHERE ...: each deleted row fires lines_ad
DeleteLines(d, rows) ==
    IF rows = {} THEN d
    ELSE LET row == CHOOSE x \in rows : TRUE
         IN  DeleteLines([d EXCEPT !.lines = @ \ {row},
                                   !.lines_fts = lines_ad(@, row)],
                         rows \ {row})

\* The index entries DELETE FROM lines_fts removes: lines_fts is an
\* external-content table (content='lines'), so the rows the statement
\* visits are the rows of lines.
RECURSIVE DeleteFromFts(_, _)
DeleteFromFts(fts, rows) ==
    IF rows = {} THEN fts
    ELSE LET row == CHOOSE x \in rows : TRUE
         IN  DeleteFromFts(fts (-) SetToBag({row.id}), rows \ {row})

RowIds(rows) == {row.id : row \in rows}

\* The source versions of the steps migrate_schema runs, in the order it
\* runs them: each `if version == n` block, taken in the order of the text
migration_steps(d) ==
    IF d.version = None THEN <<>>
    ELSE
    LET v0 == d.version[1]
        s5 == IF v0 = 4 THEN <<4>> ELSE <<>>
        v5 == IF v0 = 4 THEN 5 ELSE v0
        s6 == IF v5 = 5 THEN Append(s5, 5) ELSE s5
        v6 == IF v5 = 5 THEN 6 ELSE v5
        s7 == IF v6 = 6 THEN Append(s6, 6) ELSE s6
        v7 == IF v6 = 6 THEN 7 ELSE v6
        s8 == IF v7 = 7 THEN Append(s7, 7) ELSE s7
        v8 == IF v7 = 7 THEN 8 ELSE v7
        s9 == IF v8 = 8 THEN Append(s8, 8) ELSE s8
        v9 == IF v8 = 8 THEN 9 ELSE v8
    IN  IF v9 = 9 THEN Append(s9, 9) ELSE s9

\* The first k statements of the step v6 -> v7: the drops, CREATE VIRTUAL
\* TABLE hook_events_fts, the three triggers, the INSERT ... SELECT that
\* fills the index.  Each statement commits as it is executed.
HookFtsObjects == {"hook_events_fts", "hook_events_ai", "hook_events_ad", "hook_events_au"}
Step6To7(d, k) ==
    LET d1 == IF k >= 1
              THEN [d EXCEPT !.objects = @ \ HookFtsObjects, !.hook_events_fts = EmptyBag]
              ELSE d
        d2 == IF k >= 2 THEN [d1 EXCEPT !.objects = @ \cup {"hook_events_fts"}] ELSE d1
        d3 == IF k >= 3 THEN [d2 EXCEPT !.objects = @ \cup HookFtsObjects] ELSE d2
    IN  IF k >= 4 THEN [d3 EXCEPT !.hook_events_fts = SetToBag(RowIds(d3.hook_events))]
        ELSE d3

\* The first k statements of the step v9 -> v10: DELETE FROM lines WHERE type
\* IN (...), DELETE FROM lines_fts, INSERT INTO lines_fts ... SELECT, UPDATE
\* sessions SET line_count = (SELECT COUNT(*) ...)
Step9To10(d, k) ==
    LET d1 == IF k >= 1
              THEN DeleteLines(d, {l \in d.lines : l.type \in
                      {"progress", "file-history-snapshot", "queue-operation"}})
              ELSE d
        d2 == IF k >= 2 THEN [d1 EXCEPT !.lines_fts = DeleteFromFts(@, d1.lines)] ELSE d1
        d3 == IF k >= 3 THEN [d2 EXCEPT !.lines_fts = @ (+) SetToBag(RowIds(d2.lines))]
              ELSE d2
    IN  IF k >= 4
        THEN [d3 EXCEPT !.sessions =
                 {[row EXCEPT !.line_count =
                      Cardinality({l \in d3.lines : l.file_path = row.file_path})]
                  : row \in @}]
        ELSE d3

\* No statement of a migration fails / statement `at` of the step from
\* version `step` fails
NoMigrationFault == [step |-> 0, at |-> 0]

\* migrate_schema with a statement that may fail: the store it leaves and
\* whether it returned Ok.  v4->v5 and v7->v8 add the columns (ALTER TABLE
\* ... ADD COLUMN; the rows of the model carry them, NULL), v5->v6 and
\* v8->v9 change nothing.
migrate_schema_failing(d, fault) ==
    IF d.version = None THEN [d |-> d, ok |-> TRUE]
    ELSE
    LET v0 == d.version[1]
        d5 == IF v0 = 4 THEN [d EXCEPT !.objects = @ \ {"no_turn_columns"}] ELSE d
        v5 == IF v0 = 4 THEN 5 ELSE v0
        v6 == IF v5 = 5 THEN 6 ELSE v5
        d7 == IF v6 = 6 THEN Step6To7(d5, 4) ELSE d5
        v7 == IF v6 = 6 THEN 7 ELSE v6
        d8 == IF v7 = 7 THEN [d7 EXCEPT !.objects = @ \ {"no_git_columns"}] ELSE d7
        v8 == IF v7 = 7 THEN 8 ELSE v7
        v9 == IF v8 = 8 THEN 9 ELSE v8
    IN  IF v6 = 6 /\ fault.step = 6
        THEN [d |-> Step6To7(d5, fault.at - 1), ok |-> FALSE]
        ELSE IF v9 = 9 /\ fault.step = 9
        THEN [d |-> Step9To10(d8, fault.at - 1), ok |-> FALSE]
        ELSE [d |-> IF v9 = 9 THEN Step9To10(d8, 4) ELSE d8, ok |-> TRUE]

\* migrate_schema: the steps from the stored version up
migrate_schema(d) == migrate_schema_failing(d, NoMigrationFault).d

\* CREATE INDEX IF NOT EXISTS idx_lines_turn_id ON lines(turn_id) and
\* ... idx_lines_git_hash ON lines(git_hash) come before migrate_schema: on
\* an existing table without the column the statement fails and `?` returns
init_schema_fails(d) == "lines" \in d.objects /\ d.objects \cap MissingColumns # {}

\* init_schema with a migration statement that may fail: CREATE ... IF NOT
\* EXISTS (what exists is left as it is, what does not is created empty),
\* the migrations, then the version row
init_schema_failing(d, fault) ==
    IF init_schema_fails(d) THEN [d |-> d, ok |-> FALSE, steps |-> <<>>]
    ELSE
    LET created == [d EXCEPT !.objects = @ \cup SchemaObjects]
        migrated == migrate_schema_failing(created, fault)
    IN  IF migrated.ok
        THEN [d |-> [migrated.d EXCEPT !.version = Some(DB_VERSION)], ok |-> TRUE,
              steps |-> migration_steps(created)]
        ELSE [d |-> migrated.d, ok |-> FALSE,
              steps |-> SelectSeq(migration_steps(created), LAMBDA n : n <= fault.step)]

init_schema(d) == init_schema_failing(d, NoMigrationFault).d

\* rebuild_index, were hook_files missing from its DROP TABLE statements
DropDataTablesButHookFiles(d) ==
    [d EXCEPT !.objects = @ \ ((DataTables \ {"hook_files"}) \cup MissingColumns),
              !.lines = {}, !.seq_lines = 0, !.sessions = {},
              !.hook_events = {}, !.seq_hooks = 0,
              !.adapter_cursors = {}]

\* The statements of rebuild_index, each one committed as it is executed.
\* DROP TRIGGER IF EXISTS, six times
DropTriggers(d) == [d EXCEPT !.objects = @ \ Triggers]

\* DROP TABLE IF EXISTS lines_fts, hook_events_fts
DropFtsTables(d) ==
    [d EXCEPT !.objects = @ \ FtsTables,
              !.lines_fts = EmptyBag, !.hook_events_fts = EmptyBag]

\* DROP TABLE IF EXISTS lines, sessions, hook_events, hook_files,
\* adapter_cursors (the AUTOINCREMENT counters go with the tables)
DropDataTables(d) ==
    [d EXCEPT !.objects = @ \ (DataTables \cup MissingColumns),
              !.lines = {}, !.seq_lines = 0, !.sessions = {},
              !.hook_events = {}, !.seq_hooks = 0, !.hook_files = {},
              !.adapter_cursors = {}]

\* DELETE FROM metadata WHERE key = 'last_indexed'
DeleteLastIndexed(d) == [d EXCEPT !.last_indexed = None]

\* rebuild_index: the drops, the delete, then init_schema
rebuild_index(d) ==
    init_schema(DeleteLastIndexed(DropDataTables(DropFtsTables(DropTriggers(d)))))

----------------------------------------------------------------------------
(* correlation.rs *)

\* The orders in which ORDER BY timestamp ASC may return the rows S (rows
\* with equal keys come in either order)
OrdersByTimestamp(S) ==
    LET n == Cardinality(S)
    IN  {q \in [1..n -> S] :
            /\ \A x \in S : \E i \in 1..n : q[i] = x
            /\ \A i \in 1..n : \A j \in 1..n :
                  i < j => q[i].timestamp <= q[j].timestamp}

\* The orders in which ORDER BY turn_sequence ASC may return the groups S
OrdersByTurnSequence(S) ==
    LET n == Cardinality(S)
    IN  {q \in [1..n -> S] :
            /\ \A x \in S : \E i \in 1..n : q[i] = x
            /\ \A i \in 1..n : \A j \in 1..n :
                  i < j => q[i].turn_sequence[1] <= q[j].turn_sequence[1]}

Min(S) == CHOOSE x \in S : \A y \in S : x <= y

\* UPDATE lines SET ..., were ?2 bound to the line number of the row
RECURSIVE UpdateLinesSequenceOfLine(_, _, _, _, _)
UpdateLinesSequenceOfLine(d, hit, turn_id, turn_sequence, session_name) ==
    IF hit = {} THEN d
    ELSE LET old == CHOOSE x \in hit : TRUE
             new == [old EXCEPT !.turn_id = turn_id,
                                !.turn_sequence = Some(old.line_number),
                                !.session_name = session_name]
         IN  UpdateLinesSequenceOfLine([d EXCEPT !.lines = (@ \ {old}) \cup {new},
                                                 !.lines_fts = lines_au(@, old, new)],
                                       hit \ {old}, turn_id, turn_sequence, session_name)

\* UPDATE lines SET turn_id, turn_sequence, session_name on the rows `hit`;
\* each updated row fires lines_au
RECURSIVE UpdateLines(_, _, _, _, _)
UpdateLines(d, hit, turn_id, turn_sequence, session_name) ==
    IF hit = {} THEN d
    ELSE LET old == CHOOSE x \in hit : TRUE
             new == [old EXCEPT !.turn_id = turn_id,
                                !.turn_sequence = turn_sequence,
                                !.session_name = session_name]
         IN  UpdateLines([d EXCEPT !.lines = (@ \ {old}) \cup {new},
                                   !.lines_fts = lines_au(@, old, new)],
                         hit \ {old}, turn_id, turn_sequence, session_name)

\* UPDATE lines SET session_name = ?1 on the rows `hit`
RECURSIVE UpdateSessionName(_, _, _)
UpdateSessionName(d, hit, name) ==
    IF hit = {} THEN d
    ELSE LET old == CHOOSE x \in hit : TRUE
             new == [old EXCEPT !.session_name = name]
         IN  UpdateSessionName([d EXCEPT !.lines = (@ \ {old}) \cup {new},
                                         !.lines_fts = lines_au(@, old, new)],
                               hit \ {old}, name)

\* session_name of the most recent SessionStart event that has one
SessionNames(d, session_id) ==
    LET starts == {e \in d.hook_events :
                      /\ e.session_id = session_id
                      /\ e.event_type = "SessionStart"
                      /\ e.session_name # None}
    IN  IF starts = {} THEN {None}
        ELSE {e.session_name :
                e \in {x \in starts : \A y \in starts : y.timestamp <= x.timestamp}}

\* The Stop events read as (timestamp, turn_id, turn_sequence); a row whose
\* turn_sequence is NULL fails row.get::<i64> and filter_map drops it
StopEvents(d, session_id) ==
    {e \in d.hook_events :
        /\ e.session_id = session_id
        /\ e.event_type = "Stop"
        /\ e.turn_id # None
        /\ e.turn_sequence # None}

\* The tool events grouped by (turn_id, turn_sequence) with MIN(timestamp)
ToolTurns(d, session_id) ==
    LET tools == {e \in d.hook_events :
                     /\ e.session_id = session_id
                     /\ e.turn_id # None
                     /\ e.event_type \in {"PreToolUse", "PostToolUse"}
                     /\ e.turn_sequence # None}
    IN  {[turn_id |-> e.turn_id, turn_sequence |-> e.turn_sequence,
          start_time |-> Min({x.timestamp : x \in {y \in tools :
                                  /\ y.turn_id = e.turn_id
                                  /\ y.turn_sequence = e.turn_sequence}})]
         : e \in tools}

\* The WHERE clause, were the loop to start at the second Stop
StopUpdateWhereSkipFirst(l, session_id, stop_events, i) ==
    /\ l.session_id = session_id
    /\ l.turn_id = None
    /\ i > 1
    /\ l.timestamp <= stop_events[i].timestamp
    /\ l.timestamp > stop_events[i - 1].timestamp

\* The WHERE clause, were AND turn_id IS NULL missing
StopUpdateWhereAnyTurn(l, session_id, stop_events, i) ==
    /\ l.session_id = session_id
    /\ l.timestamp <= stop_events[i].timestamp
    /\ (i > 1 => l.timestamp > stop_events[i - 1].timestamp)

\* The WHERE clause of the UPDATE for the i-th Stop: the first takes every
\* line up to its timestamp, a later one the lines after the previous Stop
StopUpdateWhere(l, session_id, stop_events, i) ==
    /\ l.session_id = session_id
    /\ l.turn_id = None
    /\ l.timestamp <= stop_events[i].timestamp
    /\ (i > 1 => l.timestamp > stop_events[i - 1].timestamp)

\* Process Stop events as turn boundaries
RECURSIVE StopLoop(_, _, _, _, _)
StopLoop(acc, stop_events, i, session_id, session_name) ==
    IF i > Len(stop_events) THEN acc
    ELSE
    LET current == stop_events[i]
        hit == {l \in acc.d.lines : StopUpdateWhere(l, session_id, stop_events, i)}
    IN  StopLoop([d |-> UpdateLines(acc.d, hit, current.turn_id,
                                    current.turn_sequence, session_name),
                  updated |-> acc.updated + Cardinality(hit)],
                 stop_events, i + 1, session_id, session_name)

\* The loop over the tool groups, were the window of a group to include the
\* start of the next one
RECURSIVE ToolLoopClosedWindow(_, _, _, _, _)
ToolLoopClosedWindow(acc, tool_turns, i, session_id, session_name) ==
    IF i > Len(tool_turns) THEN acc
    ELSE
    LET turn == tool_turns[i]
        hit == {l \in acc.d.lines :
                   /\ l.session_id = session_id
                   /\ l.turn_id = None
                   /\ l.timestamp >= turn.start_time
                   /\ (i + 1 <= Len(tool_turns)
                          => l.timestamp <= tool_turns[i + 1].start_time)}
    IN  ToolLoopClosedWindow([d |-> UpdateLines(acc.d, hit, turn.turn_id,
                                                turn.turn_sequence, session_name),
                              updated |-> acc.updated + Cardinality(hit)],
                             tool_turns, i + 1, session_id, session_name)

\* Use tool event timestamps to correlate lines
RECURSIVE ToolLoop(_, _, _, _, _)
ToolLoop(acc, tool_turns, i, session_id, session_name) ==
    IF i > Len(tool_turns) THEN acc
    ELSE
    LET turn == tool_turns[i]
        hit == {l \in acc.d.lines :
                   /\ l.session_id = session_id
                   /\ l.turn_id = None
                   /\ l.timestamp >= turn.start_time
                   /\ (i + 1 <= Len(tool_turns)
                          => l.timestamp < tool_turns[i + 1].start_time)}
    IN  ToolLoop([d |-> UpdateLines(acc.d, hit, turn.turn_id,
                                    turn.turn_sequence, session_name),
                  updated |-> acc.updated + Cardinality(hit)],
                 tool_turns, i + 1, session_id, session_name)

\* The body of the loop over sessions, for one order of the rows read
CorrelateSession(acc, session_id, session_name, stop_events, tool_turns) ==
    IF stop_events = <<>>
    THEN IF tool_turns # <<>>
         THEN ToolLoop(acc, tool_turns, 1, session_id, session_name)
         ELSE IF session_name # None
         THEN [acc EXCEPT !.d = UpdateSessionName(@,
                    {l \in @.lines : l.session_id = session_id /\ l.session_name = None},
                    session_name)]
         ELSE acc
    ELSE
    LET after == StopLoop(acc, stop_events, 1, session_id, session_name)
        last_ts == stop_events[Len(stop_events)].timestamp
    IN  IF session_name # None
        THEN [after EXCEPT !.d = UpdateSessionName(@,
                    {l \in @.lines : /\ l.session_id = session_id
                                     /\ l.timestamp > last_ts
                                     /\ l.session_name = None},
                    session_name)]
        ELSE after

SessionOutcomes(acc, session_id) ==
    {CorrelateSession(acc, session_id, name, stops, tools) :
        name \in SessionNames(acc.d, session_id),
        stops \in OrdersByTimestamp(StopEvents(acc.d, session_id)),
        tools \in OrdersByTurnSequence(ToolTurns(acc.d, session_id))}

RECURSIVE CorrelateSessions(_, _)
CorrelateSessions(accs, sessions) ==
    IF sessions = {} THEN accs
    ELSE LET session_id == CHOOSE x \in sessions : TRUE
         IN  CorrelateSessions(UNION {SessionOutcomes(acc, session_id) : acc \in accs},
                               sessions \ {session_id})

\* correlate_lines_to_turns, were it to take only the sessions none of whose
\* lines has a turn yet
correlate_sessions_without_turns(d) ==
    LET sessions == {l.session_id :
                        l \in {x \in d.lines : x.turn_id = None /\ x.session_id # ""}}
                    \ {l.session_id : l \in {x \in d.lines : x.turn_id # None}}
    IN  {[d |-> acc.d, updated |-> acc.updated, sessions |-> Cardinality(sessions)]
         : acc \in CorrelateSessions({[d |-> d, updated |-> 0]}, sessions)}

\* correlate_lines_to_turns: the stores it may leave and the
\* CorrelationResult {updated, sessions} it returns with each
correlate_lines_to_turns(d) ==
    LET sessions == {l.session_id :
                        l \in {x \in d.lines : x.turn_id = None /\ x.session_id # ""}}
    IN  {[d |-> acc.d, updated |-> acc.updated, sessions |-> Cardinality(sessions)]
         : acc \in CorrelateSessions({[d |-> d, updated |-> 0]}, sessions)}

----------------------------------------------------------------------------
(* queries.rs: the tailing query, on a read-only handle *)

\* get_lines_after_id(after_id, None): WHERE id > ? ORDER BY id ASC
get_lines_after_id(d, after_id) ==
    LET rows == {l \in d.lines : l.id > after_id}
    IN  CHOOSE q \in [1..Cardinality(rows) -> rows] :
            /\ \A x \in rows : \E i \in DOMAIN q : q[i] = x
            /\ \A i \in DOMAIN q : \A j \in DOMAIN q : i < j => q[i].id < q[j].id

\* hook_queries.rs: the WHERE clauses that the session, event type and tool
\* name filters add (an empty list adds none; a NULL tool_name is IN nothing)
MatchingHookEvents(d, session_id, event_types, tool_names) ==
    {h \in d.hook_events :
        /\ session_id # None => h.session_id = session_id[1]
        /\ (event_types # None /\ event_types[1] # {}) => h.event_type \in event_types[1]
        /\ (tool_names # None /\ tool_names[1] # {})
              => h.tool_name # None /\ h.tool_name[1] \in tool_names[1]}

\* ORDER BY timestamp DESC, id DESC
OrderedByTimestampDesc(rows) ==
    CHOOSE q \in [1..Cardinality(rows) -> rows] :
        /\ \A x \in rows : \E i \in DOMAIN q : q[i] = x
        /\ \A i \in DOMAIN q : \A j \in DOMAIN q :
              i < j => \/ q[i].timestamp > q[j].timestamp
                       \/ q[i].timestamp = q[j].timestamp /\ q[i].id > q[j].id

\* ORDER BY id ASC
OrderedByIdAsc(rows) ==
    CHOOSE q \in [1..Cardinality(rows) -> rows] :
        /\ \A x \in rows : \E i \in DOMAIN q : q[i] = x
        /\ \A i \in DOMAIN q : \A j \in DOMAIN q : i < j => q[i].id < q[j].id

\* get_hook_events with Order::Desc and a limit: ORDER BY timestamp DESC, id
\* DESC LIMIT ?
get_hook_events(d, session_id, event_types, tool_names, limit) ==
    LET q == OrderedByTimestampDesc(
                 MatchingHookEvents(d, session_id, event_types, tool_names))
    IN  SubSeq(q, 1, IF Len(q) < limit THEN Len(q) ELSE limit)

\* get_hook_events_after_id: WHERE id > ? ... ORDER BY id ASC
get_hook_events_after_id(d, after_id, session_id, event_types, tool_names) ==
    OrderedByIdAsc({h \in MatchingHookEvents(d, session_id, event_types, tool_names) :
                       h.id > after_id})

\* get_max_hook_event_id: SELECT COALESCE(MAX(id), 0) FROM hook_events WHERE
\* session_id = ?
get_max_hook_event_id(d, session_id) ==
    LET ids == {h.id : h \in MatchingHookEvents(d, session_id, None, None)}
    IN  IF ids = {} THEN 0 ELSE CHOOSE x \in ids : \A y \in ids : y <= x

\* resolve_hook_session with a session id: the id, when hook_files has a row
\* of the session
resolve_hook_session(d, name_or_id) ==
    IF \E row \in d.hook_files : row.session_id = name_or_id
    THEN Some(name_or_id) ELSE None

\* str::split_whitespace: the maximal runs of characters other than a space
RECURSIVE split_whitespace(_)
split_whitespace(s) ==
    IF s = "" THEN <<>>
    ELSE IF SubSeq(s, 1, 1) = " " THEN split_whitespace(SubSeq(s, 2, Len(s)))
    ELSE LET spaces == {i \in 1..Len(s) : SubSeq(s, i, i) = " "}
             end == IF spaces = {} THEN Len(s) + 1
                    ELSE CHOOSE i \in spaces : \A j \in spaces : i <= j
         IN  <<SubSeq(s, 1, end - 1)>> \o split_whitespace(SubSeq(s, end, Len(s)))

\* w.replace('"', "")
RECURSIVE replace_quotes(_)
replace_quotes(w) ==
    IF w = "" THEN ""
    ELSE (IF SubSeq(w, 1, 1) = "\"" THEN "" ELSE SubSeq(w, 1, 1))
            \o replace_quotes(SubSeq(w, 2, Len(w)))

\* .join(" OR ")
RECURSIVE join(_, _)
join(words, sep) ==
    IF words = <<>> THEN ""
    ELSE IF Len(words) = 1 THEN words[1]
    ELSE words[1] \o sep \o join(Tail(words), sep)

\* The expression search_lines and search_hook_events hand to MATCH: every
\* word without its quotes, in quotes, joined by OR
fts_query(query) ==
    LET words == split_whitespace(query)
    IN  join([i \in DOMAIN words |-> "\"" \o replace_quotes(words[i]) \o "\""],
             " OR ")

\* What FTS5 makes of `MATCH ?` for the expressions fts_query can build: an
\* expression without a token is a syntax error; otherwise the quoted phrases
\* separated by OR (SyntaxError stands for every other form, which no word in
\* quotes can produce)
SyntaxError == <<"fts5: syntax error">>
RECURSIVE fts5_phrases(_)
fts5_phrases(expr) ==
    IF expr = "" \/ SubSeq(expr, 1, 1) # "\"" THEN SyntaxError
    ELSE LET quotes == {i \in 2..Len(expr) : SubSeq(expr, i, i) = "\""}
         IN  IF quotes = {} THEN SyntaxError
             ELSE LET close == CHOOSE i \in quotes : \A j \in quotes : i <= j
                      phrase == SubSeq(expr, 2, close - 1)
                      rest == SubSeq(expr, close + 1, Len(expr))
                  IN  IF rest = "" THEN <<phrase>>
                      ELSE IF Len(rest) > 4 /\ SubSeq(rest, 1, 4) = " OR "
                      THEN LET more == fts5_phrases(SubSeq(rest, 5, Len(rest)))
                           IN  IF more = SyntaxError THEN SyntaxError
                               ELSE <<phrase>> \o more
                      ELSE SyntaxError

\* The rowids of the index whose text has one of the phrases (a phrase
\* without a token matches no row), or the error of the expression
fts5_match(fts, text, expr) ==
    LET phrases == fts5_phrases(expr)
    IN  IF phrases = SyntaxError
        THEN [err |-> "Sqlite", rows |-> {}]
        ELSE [err |-> "Ok",
              rows |-> {id \in BagToSet(fts) :
                          \E i \in DOMAIN phrases :
                              /\ phrases[i] # ""
                              /\ \E k \in DOMAIN split_whitespace(text[id]) :
                                    split_whitespace(text[id])[k] = phrases[i]}]

\* search_lines(query, limit, session_id), limit above the number of rows:
\* lines_fts JOIN lines WHERE lines_fts MATCH ? [AND l.session_id = ?]
search_lines(d, query, session_id) ==
    LET text == [id \in BagToSet(d.lines_fts) |->
                    IF \E l \in d.lines : l.id = id
                    THEN (CHOOSE l \in d.lines : l.id = id).content ELSE ""]
        found == fts5_match(d.lines_fts, text, fts_query(query))
    IN  [found EXCEPT !.rows =
            {l \in d.lines : /\ l.id \in found.rows
                             /\ session_id # None => l.session_id = session_id[1]}]

\* search_hook_events(query, limit), limit above the number of rows; the
\* indexed text of an event begins with its event_type
search_hook_events(d, query) ==
    LET text == [id \in BagToSet(d.hook_events_fts) |->
                    IF \E e \in d.hook_events : e.id = id
                    THEN (CHOOSE e \in d.hook_events : e.id = id).event_type ELSE ""]
        found == fts5_match(d.hook_events_fts, text, fts_query(query))
    IN  [found EXCEPT !.rows = {e \in d.hook_events : e.id \in found.rows}]

----------------------------------------------------------------------------
(* content_trimmer.rs *)

\* s.is_char_boundary(index): the start, the end, or the first byte of a
\* character
RECURSIVE is_char_boundary(_, _)
is_char_boundary(s, index) ==
    IF index = 0 THEN TRUE
    ELSE IF s = <<>> THEN FALSE
    ELSE LET bytes == s[1].width * s[1].n
         IN  IF index >= bytes THEN is_char_boundary(Tail(s), index - bytes)
             ELSE index % s[1].width = 0

\* &s[..end], end a character boundary
RECURSIVE slice_to(_, _)
slice_to(s, end) ==
    IF end = 0 \/ s = <<>> THEN <<>>
    ELSE LET bytes == s[1].width * s[1].n
         IN  IF end >= bytes THEN <<s[1]>> \o slice_to(Tail(s), end - bytes)
             ELSE Run(s[1].ch, s[1].width, end \div s[1].width)

\* truncate_at_char_boundary, were the string returned whole
NotTruncated(s, max_len) == s

\* truncate_at_char_boundary: walk back from max_len to a character boundary
truncate_at_char_boundary(s, max_len) ==
    IF str_len(s) <= max_len THEN s
    ELSE LET RECURSIVE walk(_)
             walk(end) == IF end > 0 /\ ~is_char_boundary(s, end)
                          THEN walk(end - 1) ELSE end
         IN  slice_to(s, walk(max_len))

\* The decimal digits of n
RECURSIVE Digits(_)
Digits(n) == IF n < 10 THEN 1 ELSE 1 + Digits(n \div 10)

\* format!("{} [trimmed from {} chars]", preview, s.len()): the marker is 22
\* bytes and the digits of the length
Marker(n) == Run(<<" [trimmed from {} chars]", n>>, 1, 22 + Digits(n))

\* trim_value, were a string of exactly threshold bytes trimmed too
RECURSIVE TrimFromThreshold(_, _)
TrimFromThreshold(value, threshold) ==
    CASE value.kind = "string" ->
            IF str_len(value.s) >= threshold
            THEN JString(truncate_at_char_boundary(value.s, PREVIEW_LENGTH)
                            \o Marker(str_len(value.s)))
            ELSE value
      [] value.kind = "object" ->
            JObject([key \in DOMAIN value.fields |->
                        IF key \in FULL_PAYLOAD_FIELDS THEN value.fields[key]
                        ELSE TrimFromThreshold(value.fields[key], threshold)])
      [] value.kind = "array" ->
            JArray([i \in DOMAIN value.items |->
                        TrimFromThreshold(value.items[i], threshold)])
      [] OTHER -> value

\* trim_value, were no key protected
RECURSIVE TrimEveryKey(_, _)
TrimEveryKey(value, threshold) ==
    CASE value.kind = "string" ->
            IF str_len(value.s) > threshold
            THEN JString(truncate_at_char_boundary(value.s, PREVIEW_LENGTH)
                            \o Marker(str_len(value.s)))
            ELSE value
      [] value.kind = "object" ->
            JObject([key \in DOMAIN value.fields |->
                        TrimEveryKey(value.fields[key], threshold)])
      [] value.kind = "array" ->
            JArray([i \in DOMAIN value.items |->
                        TrimEveryKey(value.items[i], threshold)])
      [] OTHER -> value

\* trim_value: a string above the threshold becomes its preview and the
\* marker; objects and arrays are walked, but for the values of protected
\* keys; numbers, booleans and null pass through
RECURSIVE trim_value(_, _)
trim_value(value, threshold) ==
    CASE value.kind = "string" ->
            IF str_len(value.s) > threshold
            THEN JString(truncate_at_char_boundary(value.s, PREVIEW_LENGTH)
                            \o Marker(str_len(value.s)))
            ELSE value
      [] value.kind = "object" ->
            JObject([key \in DOMAIN value.fields |->
                        IF key \in FULL_PAYLOAD_FIELDS THEN value.fields[key]
                        ELSE trim_value(value.fields[key], threshold)])
      [] value.kind = "array" ->
            JArray([i \in DOMAIN value.items |->
                        trim_value(value.items[i], threshold)])
      [] OTHER -> value

----------------------------------------------------------------------------
(* daemon.rs.  An event path is the sequence of its components; the file it *)
(* names is kept in fs under its last component.                            *)

projects_dir == <<".claude", "projects">>
hooks_dir == <<".claude", "hooks">>

\* Path::file_name: the last component, unless the path is the root or ends
\* in ".."
file_name(path) ==
    IF path = <<>> \/ path[Len(path)] = ".." THEN None ELSE Some(path[Len(path)])

\* str::ends_with
ends_with(name, suffix) ==
    /\ Len(name) >= Len(suffix)
    /\ SubSeq(name, Len(name) - Len(suffix) + 1, Len(name)) = suffix

\* Path::starts_with: base is a prefix of whole components
starts_with(path, base) ==
    /\ Len(path) >= Len(base)
    /\ SubSeq(path, 1, Len(base)) = base

\* Path::is_dir: the two watched directories and their parent exist
is_dir(path) == path \in {projects_dir, hooks_dir, <<".claude">>}

\* The path at which the watcher reports a file
EventPath(file) ==
    IF ends_with(file, ".hooks.jsonl") THEN Append(hooks_dir, file)
    ELSE Append(projects_dir, file)

handle_transcript_file_change(acc, file, disk) ==
    LET state == CursorRow(acc.c.db.sessions, file)
        file_size == Len(disk[file])
        from_offset == IF state = None THEN 0 ELSE state[1].byte_offset
        start_line == IF state = None THEN 1 ELSE state[1].line_count + 1
        out == index_transcript_file(acc.c, file, disk[file], from_offset, start_line,
                                     NoFault)
    IN  IF from_offset >= file_size THEN acc
        ELSE [acc EXCEPT !.c = out.c, !.res[file] = out.result]

handle_hook_file_change(acc, file, disk) ==
    LET state == CursorRow(acc.c.db.hook_files, file)
        file_size == Len(disk[file])
        from_offset == IF state = None THEN 0 ELSE state[1].byte_offset
        start_line == IF state = None THEN 1 ELSE state[1].event_count + 1
        out == index_hook_file(acc.c, file, disk[file], from_offset, start_line,
                               NoFault)
    IN  IF from_offset >= file_size THEN acc
        ELSE [acc EXCEPT !.c = out.c, !.res[file] = out.result]

RECURSIVE PollTranscripts(_, _, _, _)
PollTranscripts(acc, files, i, disk) ==
    IF i > Len(files) THEN acc
    ELSE PollTranscripts(handle_transcript_file_change(acc, files[i], disk),
                         files, i + 1, disk)

RECURSIVE PollHooks(_, _, _, _)
PollHooks(acc, files, i, disk) ==
    IF i > Len(files) THEN acc
    ELSE
    LET state == CursorRow(acc.c.db.hook_files, files[i])
        offset == IF state = None THEN 0 ELSE state[1].byte_offset
    IN  IF offset < Len(disk[files[i]])
        THEN PollHooks([handle_hook_file_change(acc, files[i], disk)
                           EXCEPT !.indexed_hooks = TRUE],
                       files, i + 1, disk)
        ELSE PollHooks(acc, files, i + 1, disk)

poll_directory(acc, dir, disk) ==
    LET a1 == IF starts_with(dir, projects_dir)
              THEN PollTranscripts(acc, TranscriptFiles, 1, disk) ELSE acc
    IN  IF starts_with(dir, hooks_dir)
        THEN PollHooks(a1, HookFiles, 1, disk) ELSE a1

\* The body of `for event in events` in IndexerDaemon::run
HandleEvent(acc, path, disk) ==
    LET name == file_name(path)
    IN  IF name # None
        THEN IF ends_with(name[1], ".hooks.jsonl")
             THEN [handle_hook_file_change(acc, name[1], disk)
                      EXCEPT !.indexed_hooks = TRUE]
             ELSE IF ends_with(name[1], ".jsonl")
             THEN handle_transcript_file_change(acc, name[1], disk)
             ELSE acc
        ELSE IF is_dir(path) THEN poll_directory(acc, path, disk)
        ELSE acc

RECURSIVE HandleEvents(_, _, _)
HandleEvents(acc, events, disk) ==
    IF events = <<>> THEN acc
    ELSE HandleEvents(HandleEvent(acc, Head(events), disk), Tail(events), disk)

\* One turn of the loop of IndexerDaemon::run on a received batch of events:
\* the connections and results it may leave
daemon_run(c, r, events, disk) ==
    LET acc == HandleEvents([c |-> c, res |-> r, indexed_hooks |-> FALSE], events, disk)
    IN  IF acc.indexed_hooks
        THEN {[c |-> Exec(acc.c, out.d), res |-> acc.res,
               updated |-> out.updated, sessions |-> out.sessions]
              : out \in correlate_lines_to_turns(acc.c.db)}
        ELSE {[c |-> acc.c, res |-> acc.res, updated |-> 0, sessions |-> 0]}

----------------------------------------------------------------------------
(* The inputs: what the producers write *)

U1 == TRec("s1", Some("u1"), "user", 1, "hello")
NoUuid == TRec("s1", None, "assistant", 3, "hi")
Progress == TRec("s1", Some("u2"), "progress", 3, "")

PreTool == HRec("s1", "PreToolUse", 1, Some("s1:1"), Some(1), None)
Stop1 == HRec("s1", "Stop", 2, Some("s1:1"), Some(1), None)
Stop2 == HRec("s1", "Stop", 4, Some("s1:2"), Some(2), None)

\* Hook records with payloads: a Bash call with a long output in its input
\* and a long string in its context, a Task call with a long input, a prompt,
\* handler results with a long string
BashCall == [PreTool EXCEPT
                !.toolName = Some("Bash"),
                !.input = Some(JObject([command |-> JString(Ascii(10)),
                                        stdout |-> JString(Ascii(2000))])),
                !.context = Some(JObject([transcript |-> JArray(<<JString(Ascii(3000))>>)]))]
TaskCall == [PreTool EXCEPT
                !.toolName = Some("Task"),
                !.input = Some(JObject([description |-> JString(Ascii(5000))]))]
PromptSubmit == [HRec("s1", "UserPromptSubmit", 1, None, None, None) EXCEPT
                !.input = Some(JObject([prompt |-> JString(Ascii(5000))]))]
Handled == [Stop1 EXCEPT
                !.handlerResults = Some(JObject([log |-> JString(Ascii(5000)),
                                                 note |-> JString(Ascii(2000))]))]

NumLines(bytes) == Cardinality({i \in DOMAIN bytes : bytes[i] = <<"NL">>})

----------------------------------------------------------------------------
(* transcript-db connection.rs: the read-only handle *)

\* The version the reader expects (transcript-db DB_VERSION; the writer's
\* constant of the same name is DB_VERSION above)
TranscriptDb_DB_VERSION == 8

DbOk == [err |-> "Ok", expected |-> None, found |-> None]
NotFound == [err |-> "NotFound", expected |-> None, found |-> None]
NotInitialized == [err |-> "NotInitialized", expected |-> None, found |-> None]
VersionMismatch(expected, found) ==
    [err |-> "VersionMismatch", expected |-> Some(expected), found |-> Some(found)]

\* No open was attempted yet
NoHandle == [err |-> "NoHandle", expected |-> None, found |-> None]

\* check_version, were any version but the expected one refused
check_versionExact(d) ==
    IF d.version = None THEN NotInitialized
    ELSE IF d.version[1] # TranscriptDb_DB_VERSION
         THEN VersionMismatch(TranscriptDb_DB_VERSION, d.version[1])
         ELSE DbOk

\* check_version: no row (or no metadata table: .ok() folds the error) is
\* NotInitialized, a version below the expected one a mismatch, any other Ok
check_version(d) ==
    IF d.version = None THEN NotInitialized
    ELSE IF d.version[1] < TranscriptDb_DB_VERSION
         THEN VersionMismatch(TranscriptDb_DB_VERSION, d.version[1])
         ELSE DbOk

\* TranscriptDb::open
TranscriptDb_open(d) ==
    IF ~d.exists THEN NotFound ELSE check_version(d)

----------------------------------------------------------------------------
(* The state after construction *)

NoOp == [op |-> "open", updated |-> 0, sessions |-> 0]
Op(name) == [NoOp EXCEPT !.op = name]

\* No file written yet, a store just created by TranscriptDb::open
InitFresh ==
    /\ fs = [p \in Paths |-> <<>>]
    /\ db = init_schema(EmptyTables)
    /\ committed = db
    /\ savepoints = 0
    /\ res = [p \in Paths |-> NoResult]
    /\ last = NoOp
    /\ tail = [cursor |-> 0, received |-> <<>>, polls |-> 0]
    /\ pending = {}
    /\ reader = NoHandle

\* A store left by schema version 9, whose indexer stored every record type,
\* not opened yet by this version
LegacyStore ==
    LET path == TranscriptFiles[1]
        row(id, r) == [id |-> id, session_id |-> r.sessionId, uuid |-> r.uuid[1],
                       line_number |-> id, type |-> r.type, timestamp |-> r.timestamp,
                       content |-> r.text, file_path |-> path,
                       turn_id |-> None, turn_sequence |-> None, session_name |-> None]
    IN  [EmptyTables EXCEPT
            !.lines = {row(1, Progress), row(2, U1)},
            !.lines_fts = SetToBag({1, 2}),
            !.seq_lines = 2,
            !.sessions = {[file_path |-> path, session_id |-> "s1", line_count |-> 2,
                           byte_offset |-> 6, first_timestamp |-> Some(3),
                           last_timestamp |-> Some(1)]},
            !.adapter_cursors = {[file_path |-> path, adapter_name |-> "external",
                                  byte_offset |-> 6, line_count |-> 2]},
            !.last_indexed = Some("then"),
            !.version = Some(9)]

InitLegacy ==
    /\ fs = [p \in Paths |-> IF p = TranscriptFiles[1]
                             THEN RecordLine(Progress) \o RecordLine(U1) ELSE <<>>]
    /\ db = LegacyStore
    /\ committed = db
    /\ savepoints = 0
    /\ res = [p \in Paths |-> NoResult]
    /\ last = NoOp
    /\ tail = [cursor |-> 0, received |-> <<>>, polls |-> 0]
    /\ pending = {}
    /\ reader = NoHandle

Init == InitFresh \/ InitLegacy

----------------------------------------------------------------------------
(* The operations *)

Opened == db.version = Some(DB_VERSION)

\* The outcome of a driver becomes the state
Becomes(out, name) ==
    /\ db' = out.c.db
    /\ savepoints' = out.c.sp
    /\ committed' = out.c.committed
    /\ res' = out.res
    /\ last' = Op(name)

\* A producer appends one line to a file
Write(path, line) ==
    /\ NumLines(fs[path]) < MaxLines
    /\ fs' = [fs EXCEPT ![path] = @ \o line]
    /\ last' = Op("write")
    /\ UNCHANGED <<db, savepoints, committed, res, tail, pending, reader>>

\* IndexerDb::open_or_create by a new process: what was not committed is
\* gone, the file is created if it is not there, init_schema runs
Open ==
    /\ db' = init_schema([committed EXCEPT !.exists = TRUE])
    /\ committed' = db'
    /\ savepoints' = 0
    /\ last' = Op("open")
    /\ UNCHANGED <<fs, res, tail, pending, reader>>

\* IndexerDb::open_or_create by a new process on a store that a migration
\* statement may fail on: every statement executed is committed, the Result
\* is that of init_schema
OpenOrCreate(fault) ==
    /\ LET out == init_schema_failing([committed EXCEPT !.exists = TRUE], fault)
       IN  /\ db' = out.d
           /\ committed' = out.d
           /\ last' = [op |-> "open_or_create", updated |-> 0, sessions |-> 0,
                       ok |-> out.ok, steps |-> out.steps, fault |-> fault]
    /\ savepoints' = 0
    /\ UNCHANGED <<fs, res, tail, pending, reader>>

\* The first statements of IndexerDb::open_or_create on no file: the file is
\* created and set to WAL mode; init_schema has not run yet
CreateFile ==
    /\ ~committed.exists
    /\ db' = [committed EXCEPT !.exists = TRUE]
    /\ committed' = db'
    /\ savepoints' = 0
    /\ last' = Op("create_file")
    /\ UNCHANGED <<fs, res, tail, pending, reader>>

\* TranscriptDb::open by a reading process, on what is committed
ReaderOpen ==
    /\ reader' = TranscriptDb_open(committed)
    /\ last' = Op("reader_open")
    /\ UNCHANGED <<fs, db, savepoints, committed, res, tail, pending>>

\* search_lines / search_hook_events on an open read-only handle
Queries == {"", " ", "hello", " hello  hi ", "\"", "he\"llo", "Stop"}

SearchLines(query, session_id) ==
    /\ reader = DbOk
    /\ last' = [op |-> "search_lines", updated |-> 0, sessions |-> 0,
                query |-> query,
                result |-> search_lines(committed, query, session_id)]
    /\ UNCHANGED <<fs, db, savepoints, committed, res, tail, pending, reader>>

SearchHookEvents(query) ==
    /\ reader = DbOk
    /\ last' = [op |-> "search_hook_events", updated |-> 0, sessions |-> 0,
                query |-> query,
                result |-> search_hook_events(committed, query)]
    /\ UNCHANGED <<fs, db, savepoints, committed, res, tail, pending, reader>>

\* trim_value applied to the latest output, at the threshold of the caller
TrimValue ==
    /\ last.op \in {"value", "trim_value"}
    /\ last.times < MaxTrims
    /\ last' = [op |-> "trim_value", updated |-> 0, sessions |-> 0,
                input |-> last.output, threshold |-> last.threshold,
                output |-> trim_value(last.output, last.threshold),
                times |-> last.times + 1]
    /\ UNCHANGED <<fs, db, savepoints, committed, res, tail, pending, reader>>

\* An insert of the call may fail (NoFault: none does)
Faults ==
    {NoFault} \cup {[path |-> p, at |-> k, rollback |-> b] :
                       p \in Paths, k \in 1..MaxLines, b \in BOOLEAN}

IndexAllTranscripts(fault) ==
    /\ Opened
    /\ \A i \in DOMAIN TranscriptFiles :
          db.seq_lines + NumLines(fs[TranscriptFiles[i]]) <= MaxId
    /\ Becomes(index_all_transcripts(Conn, res, fs, fault), "index_all_transcripts")
    /\ UNCHANGED <<fs, tail, pending, reader>>

UpdateTranscripts(fault) ==
    /\ Opened
    /\ \A i \in DOMAIN TranscriptFiles :
          db.seq_lines + NumLines(fs[TranscriptFiles[i]]) <= MaxId
    /\ Becomes(update_transcripts(Conn, res, fs, fault), "update_transcripts")
    /\ UNCHANGED <<fs, tail, pending, reader>>

IndexAllHookFiles(fault) ==
    /\ Opened
    /\ \A i \in DOMAIN HookFiles :
          db.seq_hooks + NumLines(fs[HookFiles[i]]) <= MaxId
    /\ Becomes(index_all_hook_files(Conn, res, fs, fault), "index_all_hook_files")
    /\ UNCHANGED <<fs, tail, pending, reader>>

UpdateHookIndex(fault) ==
    /\ Opened
    /\ \A i \in DOMAIN HookFiles :
          db.seq_hooks + NumLines(fs[HookFiles[i]]) <= MaxId
    /\ Becomes(update_hook_index(Conn, res, fs, fault), "update_hook_index")
    /\ UNCHANGED <<fs, tail, pending, reader>>

\* update_transcripts on the first transcript while its producer appends
\* `line` after the size stat of index_transcript_file and before its read
UpdateTranscriptsDuringAppend(line) ==
    LET path == TranscriptFiles[1]
        state == CursorRow(db.sessions, path)
        file_size == Len(fs[path])
        appended == fs[path] \o line
        from_offset == IF state = None THEN 0 ELSE state[1].byte_offset
        start_line == IF state = None THEN 1 ELSE state[1].line_count + 1
        out == index_transcript_file_racing(Conn, path, file_size, appended, from_offset,
                                            start_line, NoFault)
    IN  /\ Opened
        /\ NumLines(fs[path]) < MaxLines
        /\ db.seq_lines + NumLines(appended) <= MaxId
        /\ ~(state # None /\ state[1].byte_offset >= file_size)
        /\ Becomes([c |-> Exec(out.c, [out.c.db EXCEPT !.last_indexed = Some("now")]),
                    res |-> [res EXCEPT ![path] = out.result]], "update_transcripts")
        /\ fs' = [fs EXCEPT ![path] = appended]
        /\ UNCHANGED <<tail, pending, reader>>

\* update_hook_index on the first hook file while its producer appends `line`
\* after the size stat of index_hook_file and before its read
UpdateHookIndexDuringAppend(line) ==
    LET path == HookFiles[1]
        state == CursorRow(db.hook_files, path)
        file_size == Len(fs[path])
        appended == fs[path] \o line
        from_offset == IF state = None THEN 0 ELSE state[1].byte_offset
        start_line == IF state = None THEN 1 ELSE state[1].event_count + 1
        out == index_hook_file_racing(Conn, path, file_size, appended, from_offset,
                                      start_line, NoFault)
    IN  /\ Opened
        /\ NumLines(fs[path]) < MaxLines
        /\ db.seq_hooks + NumLines(appended) <= MaxId
        /\ ~(state # None /\ state[1].byte_offset >= file_size)
        /\ Becomes([c |-> out.c, res |-> [res EXCEPT ![path] = out.result]],
                   "update_hook_index")
        /\ fs' = [fs EXCEPT ![path] = appended]
        /\ UNCHANGED <<tail, pending, reader>>

\* index rebuild: rebuild_index, then the caller ingests again
Rebuild ==
    /\ Opened
    /\ LET c == Exec(Conn, rebuild_index(db))
       IN  /\ db' = c.db
           /\ savepoints' = c.sp
           /\ committed' = c.committed
    /\ res' = [p \in Paths |-> NoResult]
    /\ last' = Op("rebuild_index")
    /\ UNCHANGED <<fs, tail, pending, reader>>

Correlate ==
    /\ Opened
    /\ \E out \in correlate_lines_to_turns(db) :
          LET c == Exec(Conn, out.d)
          IN  /\ db' = c.db
              /\ savepoints' = c.sp
              /\ committed' = c.committed
              /\ last' = [op |-> "correlate_lines_to_turns",
                          updated |-> out.updated, sessions |-> out.sessions]
    /\ UNCHANGED <<fs, res, tail, pending, reader>>

\* One poll of a tailing reader: read the committed rows after the cursor,
\* move the cursor to the largest id returned
Poll ==
    /\ tail.polls < MaxPolls
    /\ LET rows == get_lines_after_id(committed, tail.cursor)
       IN  tail' = [cursor |-> IF rows = <<>> THEN tail.cursor ELSE rows[Len(rows)].id,
                    received |-> tail.received
                                    \o [i \in DOMAIN rows |-> <<rows[i].session_id, rows[i].uuid>>],
                    polls |-> tail.polls + 1]
    /\ last' = Op("get_lines_after_id")
    /\ UNCHANGED <<fs, db, savepoints, committed, res, pending, reader>>

\* hook-events view --tail: the listing prints the last TailLimit matching
\* events in chronological order
TailLimit == 10

Reversed(q) == [i \in DOMAIN q |-> q[Len(q) + 1 - i]]

\* view, then tail_mode up to its listing: the session is resolved, the
\* last events are queried and printed
TailList(session, event_types) ==
    /\ tail.pc = "start"
    /\ resolve_hook_session(committed, session) # None
    /\ LET session_id == resolve_hook_session(committed, session)
           initial == Reversed(get_hook_events(committed, session_id, event_types, None,
                                               TailLimit))
       IN  tail' = [tail EXCEPT !.pc = "max",
                                !.session_id = session_id,
                                !.event_types = event_types,
                                !.received = [i \in DOMAIN initial |-> initial[i].id]]
    /\ last' = Op("get_hook_events")
    /\ UNCHANGED <<fs, db, savepoints, committed, res, pending, reader>>

\* tail_mode: let mut last_id = db.get_max_hook_event_id(Some(session_id))?
TailMax ==
    /\ tail.pc = "max"
    /\ tail' = [tail EXCEPT !.pc = "loop",
                            !.cursor = get_max_hook_event_id(committed, tail.session_id)]
    /\ last' = Op("get_max_hook_event_id")
    /\ UNCHANGED <<fs, db, savepoints, committed, res, pending, reader>>

\* tail_mode: one turn of the loop, after the sleep
TailPoll ==
    /\ tail.pc = "loop"
    /\ tail.polls < MaxPolls
    /\ LET new_events == get_hook_events_after_id(committed, tail.cursor, tail.session_id,
                                                  tail.event_types, None)
       IN  tail' = [tail EXCEPT
                      !.received = @ \o [i \in DOMAIN new_events |-> new_events[i].id],
                      !.cursor = IF new_events = <<>> \/ new_events[Len(new_events)].id <= @
                                 THEN @ ELSE new_events[Len(new_events)].id,
                      !.polls = @ + 1]
    /\ last' = Op("get_hook_events_after_id")
    /\ UNCHANGED <<fs, db, savepoints, committed, res, pending, reader>>

\* A producer appends to a file the daemon watches: the watcher reports the
\* file
WriteWatched(path, bytes) ==
    /\ NumLines(fs[path]) < MaxLines
    /\ fs' = [fs EXCEPT ![path] = @ \o bytes]
    /\ pending' = pending \cup {EventPath(path)}
    /\ last' = Op("write")
    /\ UNCHANGED <<db, savepoints, committed, res, tail, reader>>

\* The offsets at which a line of the file ends, and 0
LineEnds(bytes) == {0} \cup {i \in DOMAIN bytes : bytes[i] = <<"NL">>}

\* A file is cut back to one of its earlier line ends (or emptied)
Truncate(path, n) ==
    /\ n < Len(fs[path])
    /\ fs' = [fs EXCEPT ![path] = SubSeq(@, 1, n)]
    /\ pending' = pending \cup {EventPath(path)}
    /\ last' = Op("truncate")
    /\ UNCHANGED <<db, savepoints, committed, res, tail, reader>>

\* The poll thread of IndexerDaemon::run: each second it sends an event for
\* the projects directory and one for the hooks directory
PollThread ==
    /\ ~({projects_dir, hooks_dir} \subseteq pending)
    /\ pending' = pending \cup {projects_dir, hooks_dir}
    /\ last' = Op("poll_thread")
    /\ UNCHANGED <<fs, db, savepoints, committed, res, tail, reader>>

\* The batches rx.recv() may return: the debouncer sends the events of one
\* or more files together, the poll thread sends each of its events alone
Batches ==
    {<<p>> : p \in pending}
        \cup ({<<p, q>> : p \in pending \ {projects_dir, hooks_dir},
                          q \in pending \ {projects_dir, hooks_dir}}
                  \ {<<p, p>> : p \in pending})

\* The daemon receives a batch and handles it
Daemon(events) ==
    /\ Opened
    /\ events \in Batches
    /\ \A i \in DOMAIN TranscriptFiles :
          db.seq_lines + NumLines(fs[TranscriptFiles[i]]) <= MaxId
    /\ \A i \in DOMAIN HookFiles :
          db.seq_hooks + NumLines(fs[HookFiles[i]]) <= MaxId
    /\ \E out \in daemon_run(Conn, res, events, fs) :
          /\ db' = out.c.db
          /\ savepoints' = out.c.sp
          /\ committed' = out.c.committed
          /\ res' = out.res
          /\ last' = [op |-> "daemon", updated |-> out.updated,
                      sessions |-> out.sessions]
    /\ pending' = pending \ {events[i] : i \in DOMAIN events}
    /\ UNCHANGED <<fs, tail, reader>>

\* The file is empty or its last byte is a newline
AtLineEnd(bytes) ==
    IF bytes = <<>> THEN TRUE ELSE bytes[Len(bytes)] = <<"NL">>

\* A producer's buffer is flushed in the middle of a record: the leading part
\* of the record's text reaches the file
WritePrefix(path, r) ==
    /\ AtLineEnd(fs[path])
    /\ NumLines(fs[path]) < MaxLines
    /\ fs' = [fs EXCEPT ![path] = Append(@, <<"P", r>>)]
    /\ last' = Op("write")
    /\ UNCHANGED <<db, savepoints, committed, res, tail, pending, reader>>

\* ... and the rest of the record and its newline follow
WriteRest(path) ==
    /\ ~AtLineEnd(fs[path])
    /\ fs' = [fs EXCEPT ![path] = @ \o << <<"R", @[Len(@)][2]>>, <<"NL">> >>]
    /\ last' = Op("write")
    /\ UNCHANGED <<db, savepoints, committed, res, tail, pending, reader>>

\* The statements of rebuild_index in their order; the name of the last one
\* is that of the finished call
RebuildStatements ==
    <<"drop_triggers", "drop_fts_tables", "drop_data_tables",
      "delete_last_indexed", "rebuild_index">>

\* What the k-th statement of rebuild_index makes of the store
RebuildStatement(k, d) ==
    CASE k = 1 -> DropTriggers(d)
      [] k = 2 -> DropFtsTables(d)
      [] k = 3 -> DropDataTables(d)
      [] k = 4 -> DeleteLastIndexed(d)
      [] k = 5 -> init_schema(d)

\* rebuild_index has begun and has not returned
Rebuilding ==
    \E k \in 1..(Len(RebuildStatements) - 1) : last.op = RebuildStatements[k]

\* The writer executes the k-th statement of rebuild_index; it runs in
\* autocommit mode
RebuildStep(k) ==
    /\ Opened
    /\ savepoints = 0
    /\ IF k = 1 THEN ~Rebuilding ELSE last.op = RebuildStatements[k - 1]
    /\ LET c == Exec(Conn, RebuildStatement(k, db))
       IN  /\ db' = c.db
           /\ savepoints' = c.sp
           /\ committed' = c.committed
    /\ last' = Op(RebuildStatements[k])
    /\ UNCHANGED <<fs, res, tail, pending, reader>>

\* The build that `index rebuild` runs when rebuild_index has returned, and
\* `index build` at any time: index_all_transcripts, then index_all_hook_files
Build(k) ==
    /\ ~Rebuilding
    /\ IF k = 1 THEN IndexAllTranscripts(NoFault)
       ELSE last.op = "index_all_transcripts" /\ IndexAllHookFiles(NoFault)

----------------------------------------------------------------------------------------------------------------------------------------
(* Transcript ingest: a producer, full and delta ingest, rebuild, restart.  *)
(* The store may have been left by schema version 9.                        *)

Next ==
    \/ \E line \in {RecordLine(U1), RecordLine(NoUuid), RecordLine(Progress),
                    GarbageLine, BlankLine} : Write(TranscriptFiles[1], line)
    \/ Open
    \/ IndexAllTranscripts(NoFault)
    \/ UpdateTranscripts(NoFault)
    \/ Rebuild

Spec == Init /\ [][Next]_vars

----------------------------------------------------------------------------
(* Hook ingest: a producer, full and delta ingest, rebuild, restart *)

NextHooks ==
    \/ \E line \in {RecordLine(Stop1), RecordLine(Stop2), GarbageLine, BlankLine} :
          Write(HookFiles[1], line)
    \/ Open
    \/ IndexAllHookFiles(NoFault)
    \/ UpdateHookIndex(NoFault)
    \/ Rebuild

SpecHooks == InitFresh /\ [][NextHooks]_vars

----------------------------------------------------------------------------
(* A tailing reader beside the writer *)

NextTail ==
    \/ \E line \in {RecordLine(U1), RecordLine(NoUuid)} : Write(TranscriptFiles[1], line)
    \/ IndexAllTranscripts(NoFault)
    \/ UpdateTranscripts(NoFault)
    \/ Poll

SpecTail == InitFresh /\ [][NextTail]_vars

----------------------------------------------------------------------------
(* Ingest whose inserts may fail *)

MayFail(fault) == fault = NoFault \/ savepoints < MaxOpen

NextFail ==
    \/ \E line \in {RecordLine(U1), RecordLine(NoUuid)} : Write(TranscriptFiles[1], line)
    \/ \E line \in {RecordLine(Stop1)} : Write(HookFiles[1], line)
    \/ Open
    \/ \E fault \in Faults : MayFail(fault) /\ IndexAllTranscripts(fault)
    \/ \E fault \in Faults : MayFail(fault) /\ UpdateTranscripts(fault)
    \/ \E fault \in Faults : MayFail(fault) /\ IndexAllHookFiles(fault)
    \/ \E fault \in Faults : MayFail(fault) /\ UpdateHookIndex(fault)

SpecFail == InitFresh /\ [][NextFail]_vars

----------------------------------------------------------------------------
(* Correlation: lines and hook events are written in the order of their     *)
(* timestamps, each file is ingested at any time, and correlation runs at   *)
(* any time                                                                 *)

U5 == TRec("s1", Some("u5"), "user", 5, "next")
StopNoSeq == HRec("s1", "Stop", 6, Some("s1:3"), None, None)
Named == HRec("s1", "SessionStart", 1, None, None, Some("lonely-cat"))
PostTool2 == HRec("s1", "PostToolUse", 3, Some("s1:2"), Some(2), None)

\* The record of the last line of a file of record lines
LastRecord(bytes) == bytes[Len(bytes) - 1][2]

\* The producers share a clock: no file holds a later record
WriteInOrder(path, r) ==
    /\ \A p \in Paths : fs[p] # <<>> => LastRecord(fs[p]).timestamp <= r.timestamp
    /\ Write(path, RecordLine(r))

NextCorr ==
    \/ \E r \in {U1, NoUuid, U5} : WriteInOrder(TranscriptFiles[1], r)
    \/ \E r \in {PreTool, Named, Stop1, PostTool2, Stop2, StopNoSeq} :
          WriteInOrder(HookFiles[1], r)
    \/ UpdateTranscripts(NoFault)
    \/ UpdateHookIndex(NoFault)
    \/ Correlate

SpecCorr == InitFresh /\ [][NextCorr]_vars

----------------------------------------------------------------------------
(* Delta ingest of files that grow and shrink: the drivers and the daemon   *)

NextTruncate ==
    \/ \E r \in {U1} : WriteWatched(TranscriptFiles[1], RecordLine(r))
    \/ \E r \in {Stop1} : WriteWatched(HookFiles[1], RecordLine(r))
    \/ \E p \in Paths : \E n \in LineEnds(fs[p]) : Truncate(p, n)
    \/ UpdateTranscripts(NoFault)
    \/ UpdateHookIndex(NoFault)
    \/ \E events \in Batches : Daemon(events)

SpecTruncate == InitFresh /\ [][NextTruncate]_vars

----------------------------------------------------------------------------
(* The daemon: producers write the two watched files, the watcher reports   *)
(* each write, the poll thread sends its events, the daemon handles what it *)
(* receives.  The daemon and the poll thread keep running.  A write may go  *)
(* unreported (Write).                                                      *)

\* rx.recv() returns: the daemon takes a turn
DaemonReceives == \E events \in Batches : Daemon(events)

NextDaemon ==
    \/ \E r \in {U1, NoUuid} : WriteWatched(TranscriptFiles[1], RecordLine(r))
    \/ \E r \in {Stop1, Stop2} : WriteWatched(HookFiles[1], RecordLine(r))
    \/ \E r \in {U1, NoUuid} : Write(TranscriptFiles[1], RecordLine(r))
    \/ \E r \in {Stop1, Stop2} : Write(HookFiles[1], RecordLine(r))
    \/ PollThread
    \/ DaemonReceives

\* ENABLED <<DaemonReceives>>_vars, written out: a turn always takes its
\* events out of the channel
DaemonCanReceive ==
    /\ Opened
    /\ Batches # {}
    /\ \A i \in DOMAIN TranscriptFiles :
          db.seq_lines + NumLines(fs[TranscriptFiles[i]]) <= MaxId
    /\ \A i \in DOMAIN HookFiles :
          db.seq_hooks + NumLines(fs[HookFiles[i]]) <= MaxId

\* The poll thread and the daemon's loop are weakly fair; the producers are
\* not.  The second condition is WF_vars(DaemonReceives).
SpecDaemon ==
    /\ InitFresh
    /\ [][NextDaemon]_vars
    /\ WF_vars(PollThread)
    /\ ([]<>(~DaemonCanReceive) \/ []<><<DaemonReceives>>_vars)

----------------------------------------------------------------------------
(* Delta ingest beside producers whose records reach the file in two parts  *)

NextPartial ==
    \/ \E r \in {U1, NoUuid} : WritePrefix(TranscriptFiles[1], r)
    \/ \E r \in {Stop1, Stop2} : WritePrefix(HookFiles[1], r)
    \/ \E p \in Paths : WriteRest(p)
    \/ UpdateTranscripts(NoFault)
    \/ UpdateHookIndex(NoFault)

SpecPartial == InitFresh /\ [][NextPartial]_vars

----------------------------------------------------------------------------
(* Rebuild, statement by statement: a read-only handle sees what is        *)
(* committed, the writer's process may stop at any point and a new one open *)
(* the store                                                                *)

NextRebuild ==
    \/ \E r \in {U1} : Write(TranscriptFiles[1], RecordLine(r))
    \/ \E r \in {Stop1} : Write(HookFiles[1], RecordLine(r))
    \/ Open
    \/ \E k \in 1..2 : Build(k)
    \/ \E k \in DOMAIN RebuildStatements : RebuildStep(k)

SpecRebuild == Init /\ [][NextRebuild]_vars

----------------------------------------------------------------------------
(* A reading process beside the writer.  The store may not exist yet, or    *)
(* may have been left by schema version 7 or 9.                             *)

\* A store at schema version v: LegacyStore with that version row and, when
\* its tables are as that schema created them, without the later columns
StoreAt(v, as_created) ==
    [LegacyStore EXCEPT
        !.version = Some(v),
        !.objects = @ \cup (IF as_created /\ v < 5 THEN {"no_turn_columns"} ELSE {})
                      \cup (IF as_created /\ v < 8 THEN {"no_git_columns"} ELSE {})]

\* A store left by schema version 7
Version7Store == StoreAt(7, TRUE)

InitReader ==
    \E d \in {NoFile, Version7Store, LegacyStore} :
        /\ fs = [p \in Paths |-> IF d # NoFile /\ p = TranscriptFiles[1]
                                 THEN RecordLine(Progress) \o RecordLine(U1)
                                 ELSE <<>>]
        /\ db = d
        /\ committed = db
        /\ savepoints = 0
        /\ res = [p \in Paths |-> NoResult]
        /\ last = NoOp
        /\ tail = [cursor |-> 0, received |-> <<>>, polls |-> 0]
        /\ pending = {}
        /\ reader = NoHandle

NextReader ==
    \/ \E r \in {U1, NoUuid} : Write(TranscriptFiles[1], RecordLine(r))
    \/ CreateFile
    \/ Open
    \/ IndexAllTranscripts(NoFault)
    \/ ReaderOpen

SpecReader == InitReader /\ [][NextReader]_vars

----------------------------------------------------------------------------
(* Full-text search on a read-only handle beside the writer *)

NextSearch ==
    \/ \E r \in {U1, NoUuid} : Write(TranscriptFiles[1], RecordLine(r))
    \/ \E r \in {Stop1} : Write(HookFiles[1], RecordLine(r))
    \/ IndexAllTranscripts(NoFault)
    \/ IndexAllHookFiles(NoFault)
    \/ ReaderOpen
    \/ \E query \in Queries, session_id \in {None, Some("s1")} :
          SearchLines(query, session_id)
    \/ \E query \in Queries : SearchHookEvents(query)

SpecSearch == InitFresh /\ [][NextSearch]_vars

----------------------------------------------------------------------------
(* Hook ingest of events that carry payloads *)

NextPayload ==
    \/ \E r \in {BashCall, TaskCall, PromptSubmit, Handled} :
          Write(HookFiles[1], RecordLine(r))
    \/ IndexAllHookFiles(NoFault)
    \/ UpdateHookIndex(NoFault)

SpecPayload == InitFresh /\ [][NextPayload]_vars

----------------------------------------------------------------------------
(* The trimmer on value trees.  The strings are below, at and above the     *)
(* thresholds, of one-byte and of longer characters, some with a character  *)
(* across byte 500.                                                         *)

Strings ==
    {Ascii(0), Ascii(10), Ascii(500), Ascii(1023), Ascii(1024), Ascii(1025),
     Ascii(4096), Ascii(4097),
     Str("e2", 2, 512), Str("e2", 2, 513), Str("euro3", 3, 342),
     Str("emoji4", 4, 257), Str("emoji4", 4, 1025),
     Ascii(499) \o Str("euro3", 3, 200),
     Ascii(1) \o Str("emoji4", 4, 256),
     Ascii(498) \o Str("e2", 2, 1800)}

Values ==
    LET leaves == {JString(s) : s \in Strings}
    IN  leaves \cup {JNull, JNumber(42)}
        \cup {JObject([field |-> a, count |-> JNumber(42)]) : a \in leaves}
        \cup {JObject([prompt |-> a, other |-> b]) : a, b \in leaves}
        \cup {JArray(<<a, JNull, b>>) : a, b \in leaves}
        \cup {JObject([input |-> JObject([nested |->
                         JObject([prompt |-> a, deep |-> b])])]) : a, b \in leaves}
        \cup {JObject([prompt |-> JObject([inner |-> a])]) : a \in leaves}

InitTrim ==
    \E value \in Values, threshold \in {LARGE_THRESHOLD, HANDLER_THRESHOLD} :
        /\ fs = [p \in Paths |-> <<>>]
        /\ db = init_schema(EmptyTables)
        /\ committed = db
        /\ savepoints = 0
        /\ res = [p \in Paths |-> NoResult]
        /\ last = [op |-> "value", updated |-> 0, sessions |-> 0,
                   input |-> value, threshold |-> threshold,
                   output |-> value, times |-> 0]
        /\ tail = [cursor |-> 0, received |-> <<>>, polls |-> 0]
        /\ pending = {}
        /\ reader = NoHandle

SpecTrim == InitTrim /\ [][TrimValue]_vars

----------------------------------------------------------------------------
(* Delta ingest of a transcript file that grows by whole records *)

NextDelta ==
    \/ \E r \in {U1, NoUuid, Progress, U5, TRec("s1", Some("u3"), "assistant", 3, "hi")} :
          Write(TranscriptFiles[1], RecordLine(r))
    \/ UpdateTranscripts(NoFault)

SpecDelta == InitFresh /\ [][NextDelta]_vars

----------------------------------------------------------------------------
(* Full and delta ingest of files already indexed and correlated *)

NextReindex ==
    \/ \E r \in {U1, NoUuid} : WriteInOrder(TranscriptFiles[1], r)
    \/ \E r \in {Named, Stop1} : WriteInOrder(HookFiles[1], r)
    \/ IndexAllTranscripts(NoFault)
    \/ UpdateTranscripts(NoFault)
    \/ UpdateHookIndex(NoFault)
    \/ Correlate

SpecReindex == InitFresh /\ [][NextReindex]_vars

----------------------------------------------------------------------------
(* Delta ingest of files that hold lines the reader cannot decode *)

NextReadError ==
    \/ \E line \in {RecordLine(U1), RecordLine(NoUuid), InvalidLine} :
          Write(TranscriptFiles[1], line)
    \/ \E line \in {RecordLine(Stop1), InvalidLine} : Write(HookFiles[1], line)
    \/ UpdateTranscripts(NoFault)
    \/ UpdateHookIndex(NoFault)

SpecReadError == InitFresh /\ [][NextReadError]_vars

----------------------------------------------------------------------------
(* Full and delta ingest of a transcript with malformed and blank lines *)

NextMalformed ==
    \/ \E line \in {RecordLine(U1), RecordLine(NoUuid), RecordLine(Progress),
                    GarbageLine, BlankLine} : Write(TranscriptFiles[1], line)
    \/ IndexAllTranscripts(NoFault)
    \/ UpdateTranscripts(NoFault)

SpecMalformed == InitFresh /\ [][NextMalformed]_vars

----------------------------------------------------------------------------
(* The writer opens stores left by the schema versions 4 to 10, with tables  *)
(* as that version created them or already holding the later columns; a     *)
(* statement of a migration step may fail                                   *)

MigrationFaults ==
    {NoMigrationFault} \cup {[step |-> n, at |-> k] : n \in {6, 9}, k \in 1..4}

InitMigrate ==
    \E v \in 4..DB_VERSION : \E as_created \in BOOLEAN :
        /\ fs = [p \in Paths |-> IF p = TranscriptFiles[1]
                                 THEN RecordLine(Progress) \o RecordLine(U1) ELSE <<>>]
        /\ db = StoreAt(v, as_created)
        /\ committed = db
        /\ savepoints = 0
        /\ res = [p \in Paths |-> NoResult]
        /\ last = NoOp
        /\ tail = [cursor |-> 0, received |-> <<>>, polls |-> 0]
        /\ pending = {}
        /\ reader = NoHandle

NextMigrate ==
    \/ \E fault \in MigrationFaults : OpenOrCreate(fault)
    \/ \E r \in {Stop1, Stop2} : Write(HookFiles[1], RecordLine(r))
    \/ IndexAllTranscripts(NoFault)
    \/ UpdateTranscripts(NoFault)
    \/ UpdateHookIndex(NoFault)

SpecMigrate == InitMigrate /\ [][NextMigrate]_vars

----------------------------------------------------------------------------
(* Delta ingest while the producer appends: a line may reach the file        *)
(* between the size stat of an ingest and its read                           *)

NextAppend ==
    \/ \E r \in {U1, U5} : Write(TranscriptFiles[1], RecordLine(r))
    \/ \E r \in {Stop1, Stop2} : Write(HookFiles[1], RecordLine(r))
    \/ UpdateTranscripts(NoFault)
    \/ UpdateHookIndex(NoFault)
    \/ \E r \in {U1, U5} : UpdateTranscriptsDuringAppend(RecordLine(r))
    \/ \E r \in {Stop1, Stop2} : UpdateHookIndexDuringAppend(RecordLine(r))

SpecAppend == InitFresh /\ [][NextAppend]_vars

----------------------------------------------------------------------------
(* hook-events view --tail beside the writer: the hook file grows and is     *)
(* ingested while the tail lists, takes its cursor and polls                 *)

InitTailMode ==
    /\ fs = [p \in Paths |-> <<>>]
    /\ db = init_schema(EmptyTables)
    /\ committed = db
    /\ savepoints = 0
    /\ res = [p \in Paths |-> NoResult]
    /\ last = NoOp
    /\ tail = [cursor |-> 0, received |-> <<>>, polls |-> 0, pc |-> "start",
               session_id |-> None, event_types |-> None]
    /\ pending = {}
    /\ reader = NoHandle

NextTailMode ==
    \/ \E r \in {PreTool, Stop1, Stop2} : Write(HookFiles[1], RecordLine(r))
    \/ UpdateHookIndex(NoFault)
    \/ \E event_types \in {None, Some({"Stop"})} : TailList("s1", event_types)
    \/ TailMax
    \/ TailPoll

SpecTailMode == InitTailMode /\ [][NextTailMode]_vars

----------------------------------------------------------------------------
(* Properties *)

\* The rows of a table that came from one file
RowsOf(rows, path) == {row \in rows : row.file_path = path}

\* The lines of a file that are JSON records
ValidRecords(bytes) ==
    LET raw_lines == ReadLines(bytes, 0)
    IN  Cardinality({i \in DOMAIN raw_lines : IsJson(raw_lines[i])})

\* The latest index_*_file call on the path returned Ok and read a non-empty file
IngestedOk(path) == res[path].status = "ok" /\ res[path].file_size > 0

\* C1: after index_transcript_file / index_hook_file returned Ok for a
\* non-empty file, the file has a cursor row whose byte_offset is the file
\* size that ingest observed, and the adapter's get_cursor returns the offset
\* the call reported -- also for a hook file none of whose lines gave a row.
C1_CursorAtFileSize ==
    /\ \A i \in DOMAIN TranscriptFiles :
          LET path == TranscriptFiles[i]
              row == CursorRow(db.sessions, path)
          IN  IngestedOk(path) =>
                 /\ row # None
                 /\ row[1].byte_offset = res[path].file_size
                 /\ TranscriptLinesAdapter_get_cursor(db, path) = res[path].byte_offset
    /\ \A i \in DOMAIN HookFiles :
          LET path == HookFiles[i]
              row == CursorRow(db.hook_files, path)
          IN  IngestedOk(path) =>
                 /\ row # None
                 /\ row[1].byte_offset = res[path].file_size
                 /\ HookEventsAdapter_get_cursor(db, path) = res[path].byte_offset

\* C2: for an append-only hook file, after any sequence of full and delta
\* hook ingests, no record of the file has two rows in hook_events, and once
\* the whole file is ingested there is exactly one row per JSON record.
C2_HookRecordOnce ==
    \A i \in DOMAIN HookFiles :
        LET path == HookFiles[i]
            rows == RowsOf(db.hook_events, path)
        IN  /\ \A e1 \in rows : \A e2 \in rows :
                  e1.line_number = e2.line_number => e1 = e2
            /\ (res[path].status = "ok" /\ res[path].file_size = Len(fs[path]))
                  => Cardinality(rows) = ValidRecords(fs[path])

LineTuples(d) ==
    {<<l.session_id, l.uuid, l.line_number, l.type, l.content>> : l \in d.lines}

\* The latest ingest of the file read it from offset 0 and the file has not
\* grown since
FullyIndexed(path) ==
    /\ res[path].status = "ok"
    /\ res[path].from = 0
    /\ res[path].file_size = Len(fs[path])

\* C3: running index_transcript_file from offset 0 again on an unchanged
\* transcript file leaves the number of rows of lines and the set of
\* (session_id, uuid, line_number, type, content) tuples unchanged, records
\* without a uuid (keyed line-N) included.
C3_ReindexIdempotent ==
    [][(/\ last'.op = "index_all_transcripts"
        /\ \A i \in DOMAIN TranscriptFiles : FullyIndexed(TranscriptFiles[i]))
          => /\ Cardinality(db'.lines) = Cardinality(db.lines)
             /\ LineTuples(db') = LineTuples(db)]_vars

\* A file holding a record without uuid has been indexed from offset 0 twice:
\* the row keyed line-N carries an id no first run hands out
C3_Witness ==
    /\ last.op = "index_all_transcripts"
    /\ FullyIndexed(TranscriptFiles[1])
    /\ \E l \in db.lines :
          /\ l.uuid \notin {"u1", "u2"}
          /\ l.id > NumLines(fs[TranscriptFiles[1]])

\* C4: a reader that polls get_lines_after_id(cursor) and moves its cursor to
\* the largest id returned receives no (session_id, uuid) twice, whatever the
\* writer does in between (delta ingest, full re-index).
C4_TailExactlyOnce ==
    \A i \in DOMAIN tail.received : \A j \in DOMAIN tail.received :
        i # j => tail.received[i] # tail.received[j]

\* C8: each row of lines / hook_events has exactly one full-text entry with
\* its id as rowid, and the index has no entry for an id that is no row.
C8_FtsCoherent ==
    /\ \A l \in db.lines : CopiesIn(l.id, db.lines_fts) = 1
    /\ BagToSet(db.lines_fts) \subseteq RowIds(db.lines)
    /\ \A e \in db.hook_events : CopiesIn(e.id, db.hook_events_fts) = 1
    /\ BagToSet(db.hook_events_fts) \subseteq RowIds(db.hook_events)

\* C9: in a store opened by this version no row of lines has type progress,
\* file-history-snapshot or queue-operation.
C9_NoSkippedTypes ==
    Opened => \A l \in db.lines :
                 l.type \notin {"progress", "file-history-snapshot", "queue-operation"}

\* A file holding a progress record has been ingested whole, and rows exist
C9_Witness ==
    /\ Opened
    /\ \E i \in DOMAIN fs[TranscriptFiles[1]] :
          fs[TranscriptFiles[1]][i] = <<"P", Progress>>
    /\ res[TranscriptFiles[1]].status = "ok"
    /\ res[TranscriptFiles[1]].file_size = Len(fs[TranscriptFiles[1]])
    /\ db.lines # {}

\* The Stop events of a session that carry a turn_id
StopsWithTurn(d, session_id) ==
    {e \in d.hook_events :
        /\ e.session_id = session_id
        /\ e.event_type = "Stop"
        /\ e.turn_id # None}

\* ... and a turn_sequence as well
StopsWithTurnAndSequence(d, session_id) ==
    {e \in StopsWithTurn(d, session_id) : e.turn_sequence # None}

\* The row of d with the id of l
SameRow(d, l) == CHOOSE x \in d.lines : x.id = l.id

\* Going from d to d2, every line of the session that had no turn and lies
\* at or before the last of `stops` carries the turn of the first Stop at or
\* after it, and a line after the last Stop still has none.
AttributedByStops(stops, session_id, d, d2) ==
    \A l \in d.lines :
        (l.session_id = session_id /\ l.turn_id = None) =>
            /\ \E x \in d2.lines : x.id = l.id
            /\ LET later == {e \in stops : e.timestamp >= l.timestamp}
                   stop == CHOOSE e \in later : \A o \in later : e.timestamp <= o.timestamp
               IN  IF later = {}
                   THEN SameRow(d2, l).turn_id = None
                   ELSE /\ SameRow(d2, l).turn_id = stop.turn_id
                        /\ SameRow(d2, l).turn_sequence = stop.turn_sequence

StrictlyOrdered(stops) ==
    \A e1 \in stops : \A e2 \in stops : e1 # e2 => e1.timestamp # e2.timestamp

SessionsOf(d) == {l.session_id : l \in d.lines} \ {""}

\* C5 as stated: with S0 < ... < Sn-1 the Stop events of a session that have
\* a turn_id, a run of correlate_lines_to_turns gives every line without turn
\* at or before S0 the turn of S0, every such line in (S(i-1), Si] the turn
\* of Si, and leaves the lines after Sn-1 without turn.
C5_StopsWithTurnId ==
    [][last'.op = "correlate_lines_to_turns" =>
          \A s \in SessionsOf(db) :
              (StopsWithTurn(db, s) # {} /\ StrictlyOrdered(StopsWithTurn(db, s)))
                  => AttributedByStops(StopsWithTurn(db, s), s, db, db')]_vars

\* C5, amended: the same with S0 < ... < Sn-1 the Stop events that have both
\* a turn_id and a turn_sequence (a Stop without turn_sequence is no turn
\* boundary).
C5_StopAttribution ==
    [][last'.op = "correlate_lines_to_turns" =>
          \A s \in SessionsOf(db) :
              (/\ StopsWithTurnAndSequence(db, s) # {}
               /\ StrictlyOrdered(StopsWithTurnAndSequence(db, s)))
                  => AttributedByStops(StopsWithTurnAndSequence(db, s), s, db, db')]_vars

\* A run has just attributed a line between two Stops to the second one and
\* left a line after the last Stop without turn
C5_Witness ==
    /\ last.op = "correlate_lines_to_turns"
    /\ last.updated > 0
    /\ Cardinality(StopsWithTurnAndSequence(db, "s1")) = 2
    /\ \E l \in db.lines : l.timestamp = 3 /\ l.turn_id = Some("s1:2")
    /\ \E l \in db.lines : l.timestamp = 5 /\ l.turn_id = None

\* C6: with lines and hook events ingested and correlation run in any order,
\* a line whose turn_id is T, a Stop carrying T being indexed for its
\* session, has its timestamp in (previous Stop's timestamp, that Stop's
\* timestamp].
C6_Containment ==
    \A l \in db.lines :
        LET stops == StopsWithTurn(db, l.session_id)
            mine == {e \in stops : Some(e.turn_id[1]) = l.turn_id}
        IN  (l.turn_id # None /\ mine # {}) =>
               \E e \in mine :
                  /\ l.timestamp <= e.timestamp
                  /\ \A o \in stops : o.timestamp < e.timestamp => o.timestamp < l.timestamp

\* C7: a run of correlate_lines_to_turns right after another changes no row
\* of lines; no run changes turn_id or turn_sequence of a line that has a
\* turn_id; a store whose lines all have one yields sessions = 0, updated = 0.
C7_CorrelationIdempotent ==
    [][last'.op = "correlate_lines_to_turns" =>
          /\ last.op = "correlate_lines_to_turns" => db'.lines = db.lines
          /\ \A l \in db.lines :
                l.turn_id # None =>
                   \E x \in db'.lines : /\ x.id = l.id
                                        /\ x.turn_id = l.turn_id
                                        /\ x.turn_sequence = l.turn_sequence
          /\ (\A l \in db.lines : l.turn_id # None)
                => last'.sessions = 0 /\ last'.updated = 0]_vars

\* A run has found a store whose lines, some of them, are all attributed
C7_Witness ==
    /\ last.op = "correlate_lines_to_turns"
    /\ last.sessions = 0
    /\ last.updated = 0
    /\ db.lines # {}
    /\ \A l \in db.lines : l.turn_id # None

\* The operations that ingest the file at a path, and its cursor table
IngestOf(path) ==
    IF \E i \in DOMAIN TranscriptFiles : TranscriptFiles[i] = path
    THEN {"index_all_transcripts", "update_transcripts"}
    ELSE {"index_all_hook_files", "update_hook_index"}

CursorOf(d, path) ==
    IF \E i \in DOMAIN TranscriptFiles : TranscriptFiles[i] = path
    THEN CursorRow(d.sessions, path)
    ELSE CursorRow(d.hook_files, path)

\* C10: the inserts of one file's ingest are all-or-nothing.  When
\* index_transcript_file / index_hook_file returns an error after opening its
\* savepoint, no row the call inserted remains and the file's cursor row is
\* as before; when it returns Ok having inserted rows, the cursor row is
\* there with them and the savepoint is released.
C10_AllOrNothing ==
    [][\A path \in Paths :
          last'.op \in IngestOf(path) =>
             /\ res'[path].status = "err" =>
                   /\ db'.lines = db.lines
                   /\ db'.hook_events = db.hook_events
                   /\ CursorOf(db', path) = CursorOf(db, path)
             /\ (res'[path].status = "ok" /\ res'[path].indexed > 0) =>
                   /\ CursorOf(db', path) # None
                   /\ CursorOf(db', path)[1].byte_offset = res'[path].file_size
                   /\ savepoints' = savepoints]_vars

\* The rows of lines / hook_events that came from the file at a path
RowsFrom(d, path) ==
    IF \E i \in DOMAIN TranscriptFiles : TranscriptFiles[i] = path
    THEN RowsOf(d.lines, path)
    ELSE RowsOf(d.hook_events, path)

\* The file at the path has a cursor row and is no larger than its byte_offset
NotGrown(path) ==
    /\ CursorOf(db, path) # None
    /\ Len(fs[path]) <= CursorOf(db, path)[1].byte_offset

\* C11: a delta ingest (update_transcripts, update_hook_index, a batch of
\* daemon events) of a file whose size is at most its stored byte_offset
\* inserts no row for the file and leaves its cursor row as it was, also
\* when the file has been truncated below the cursor.
C11_NoGrowthNoChange ==
    [][last'.op \in {"update_transcripts", "update_hook_index", "daemon"} =>
          \A path \in Paths :
              NotGrown(path) =>
                 /\ CursorOf(db', path) = CursorOf(db, path)
                 /\ RowIds(RowsFrom(db', path)) = RowIds(RowsFrom(db, path))]_vars

\* The daemon has received the event of a transcript file that was cut back
\* below its cursor (no event is left in the channel) and whose rows are there
C11_Witness ==
    LET path == TranscriptFiles[1]
    IN  /\ last.op = "daemon"
        /\ pending = {}
        /\ CursorOf(db, path) # None
        /\ Len(fs[path]) < CursorOf(db, path)[1].byte_offset
        /\ RowsFrom(db, path) # {}

\* The line with the id is indexed, has no turn, and some indexed Stop of its
\* session (one with turn_id and turn_sequence) is not earlier than it
AwaitsTurn(id) ==
    \E l \in db.lines :
        /\ l.id = id
        /\ l.turn_id = None
        /\ \E e \in StopsWithTurnAndSequence(db, l.session_id) :
              l.timestamp <= e.timestamp

\* C12: under the daemon, an indexed line that is not later than some indexed
\* Stop of its session eventually has a turn_id, whichever of the two reached
\* the store first.
C12_EventuallyAttributed ==
    \A id \in 1..MaxId :
        AwaitsTurn(id) ~> (\E l \in db.lines : l.id = id /\ l.turn_id # None)

\* The records whose whole text, on a line of its own, is in the file
CompleteRecords(bytes) ==
    LET raw_lines == ReadLines(bytes, 0)
    IN  {Parsed(raw_lines[i]) : i \in {j \in DOMAIN raw_lines : IsJson(raw_lines[j])}}

\* The record has a row that came from the file at the path
HasRow(d, path, r) ==
    IF \E i \in DOMAIN TranscriptFiles : TranscriptFiles[i] = path
    THEN \E l \in RowsOf(d.lines, path) :
            l.type = r.type /\ l.timestamp = r.timestamp /\ l.content = r.text
    ELSE \E e \in RowsOf(d.hook_events, path) :
            e.event_type = r.eventType /\ e.timestamp = r.timestamp

\* C13: once delta ingest has run on an append-only file after the last byte
\* of its last record was written, every complete valid record of the file
\* has a row, also a record of which an earlier pass saw only a prefix.
C13_EveryRecordIndexed ==
    \A path \in Paths :
        (/\ AtLineEnd(fs[path])
         /\ res[path].status = "ok"
         /\ res[path].file_size = Len(fs[path]))
            => \A r \in CompleteRecords(fs[path]) : HasRow(db, path, r)

\* The daemon has just received the poll thread's event for the directory
ReceivedPoll(dir) ==
    /\ last'.op = "daemon"
    /\ dir \in pending
    /\ dir \notin pending'

\* C14: when the daemon receives a poll event (the path of the projects or
\* of the hooks directory), every file under that directory whose size
\* exceeds its stored cursor is delta-ingested: afterwards its cursor is at
\* its size.
C14_PollIngestsGrowth ==
    [][/\ ReceivedPoll(projects_dir) =>
             \A i \in DOMAIN TranscriptFiles :
                 LET file == TranscriptFiles[i]
                 IN  Len(fs[file]) > TranscriptLinesAdapter_get_cursor(db, file)
                        => TranscriptLinesAdapter_get_cursor(db', file) = Len(fs[file])
       /\ ReceivedPoll(hooks_dir) =>
             \A i \in DOMAIN HookFiles :
                 LET file == HookFiles[i]
                 IN  Len(fs[file]) > HookEventsAdapter_get_cursor(db, file)
                        => HookEventsAdapter_get_cursor(db', file) = Len(fs[file])]_vars

\* C15: when rebuild_index has returned, lines, sessions, hook_events,
\* hook_files, adapter_cursors and both full-text tables exist and are empty,
\* the triggers exist, metadata has no last_indexed row and its version is
\* DB_VERSION.
C15_RebuildClears ==
    last.op = "rebuild_index" =>
        /\ SchemaObjects \subseteq db.objects
        /\ db.lines = {} /\ db.sessions = {}
        /\ db.hook_events = {} /\ db.hook_files = {}
        /\ db.adapter_cursors = {}
        /\ db.lines_fts = EmptyBag /\ db.hook_events_fts = EmptyBag
        /\ db.last_indexed = None
        /\ db.version = Some(DB_VERSION)

\* rebuild_index has returned on a store into which the latest ingest of
\* each file had inserted rows
C15_Witness ==
    /\ last.op = "rebuild_index"
    /\ \A p \in Paths : res[p].status = "ok" /\ res[p].indexed > 0
    /\ db.lines = {}
    /\ db.hook_events = {}

\* C16: rebuild is atomic.  What a read-only handle sees, and what a new
\* process finds after a crash, always has every table, and no statement of
\* rebuild_index changes it before the re-index that follows has put the
\* rows back.
C16_RebuildAtomic ==
    [][/\ (DataTables \cup FtsTables) \subseteq committed'.objects
       /\ (\E k \in DOMAIN RebuildStatements : last'.op = RebuildStatements[k])
             => /\ committed'.lines = committed.lines
                /\ committed'.hook_events = committed.hook_events
                /\ committed'.sessions = committed.sessions
                /\ committed'.hook_files = committed.hook_files]_vars

\* C17: TranscriptDb::open returns NotFound when there is no store file,
\* NotInitialized when there is no version row, VersionMismatch{expected,
\* found} when the stored version is below the reader's constant, and
\* succeeds on a store at the writer's DB_VERSION.
C17_OpenOutcomes ==
    last.op = "reader_open" =>
        /\ ~committed.exists => reader = NotFound
        /\ committed.exists /\ committed.version = None
              => reader = NotInitialized
        /\ committed.exists /\ committed.version # None
              => /\ committed.version[1] < TranscriptDb_DB_VERSION
                    => reader = VersionMismatch(TranscriptDb_DB_VERSION,
                                                committed.version[1])
                 /\ committed.version = Some(DB_VERSION) => reader = DbOk

\* The reader opened a store that the writer initialised, and holds a handle
C17_Witness ==
    /\ last.op = "reader_open"
    /\ committed.exists
    /\ committed.version = Some(DB_VERSION)
    /\ reader = DbOk

\* C18: opening a store whose version is greater than the reader's expected
\* version fails with VersionMismatch (no handle is returned).
C18_NewerStoreRefused ==
    (/\ last.op = "reader_open"
     /\ committed.exists
     /\ committed.version # None
     /\ committed.version[1] > TranscriptDb_DB_VERSION)
        => reader.err = "VersionMismatch"

\* C19: search_lines and search_hook_events never return an error, and a
\* query without a word (empty or only spaces) returns no row.
C19_SearchNeverFails ==
    last.op \in {"search_lines", "search_hook_events"} =>
        /\ last.result.err = "Ok"
        /\ split_whitespace(last.query) = <<>> => last.result.rows = {}

\* No string of the value is longer than the threshold, but for what is under
\* a prompt key
RECURSIVE Trimmed(_, _)
Trimmed(v, threshold) ==
    CASE v.kind = "string" -> str_len(v.s) <= threshold
      [] v.kind = "object" ->
            \A key \in DOMAIN v.fields :
                key = "prompt" \/ Trimmed(v.fields[key], threshold)
      [] v.kind = "array" ->
            \A i \in DOMAIN v.items : Trimmed(v.items[i], threshold)
      [] OTHER -> TRUE

\* C20: every hook_events row holds input_json and context_json without a
\* string above 1024 bytes and handler_results without one above 4096 bytes,
\* but for values under a prompt key and the input of a TodoWrite or Task
\* event.
C20_PayloadsTrimmed ==
    \A e \in db.hook_events :
        /\ (e.input_json # None /\ e.tool_name \notin {Some("TodoWrite"), Some("Task")})
              => Trimmed(e.input_json[1], LARGE_THRESHOLD)
        /\ e.context_json # None => Trimmed(e.context_json[1], LARGE_THRESHOLD)
        /\ e.handler_results # None
              => Trimmed(e.handler_results[1], HANDLER_THRESHOLD)

\* p is made of the first characters of s, whole
RECURSIVE Prefix(_, _)
Prefix(p, s) ==
    IF p = <<>> THEN TRUE
    ELSE IF s = <<>> THEN FALSE
    ELSE /\ p[1].ch = s[1].ch
         /\ p[1].width = s[1].width
         /\ \/ p[1].n = s[1].n /\ Prefix(Tail(p), Tail(s))
            \/ p[1].n < s[1].n /\ Len(p) = 1

\* new is old with its string leaves above the threshold replaced by a
\* preview and the marker, and nothing else changed
RECURSIVE SameShape(_, _, _)
SameShape(old, new, threshold) ==
    /\ new.kind = old.kind
    /\ CASE old.kind = "string" ->
              IF str_len(old.s) > threshold
              THEN /\ new.s # <<>>
                   /\ <<new.s[Len(new.s)]>> = Marker(str_len(old.s))
                   /\ LET preview == SubSeq(new.s, 1, Len(new.s) - 1)
                      IN  Prefix(preview, old.s) /\ str_len(preview) <= 500
              ELSE new = old
         [] old.kind = "object" ->
              /\ DOMAIN new.fields = DOMAIN old.fields
              /\ \A key \in DOMAIN old.fields :
                    IF key = "prompt" THEN new.fields[key] = old.fields[key]
                    ELSE SameShape(old.fields[key], new.fields[key], threshold)
         [] old.kind = "array" ->
              /\ Len(new.items) = Len(old.items)
              /\ \A i \in DOMAIN old.items :
                    SameShape(old.items[i], new.items[i], threshold)
         [] OTHER -> new = old

\* C21: trim_value keeps the keys, the array lengths and the leaves that are
\* no strings; a string not under a protected key is replaced exactly when it
\* is longer than the threshold, by a prefix of whole characters of at most
\* 500 bytes and the marker.
C21_ShapePreserved ==
    last.op = "trim_value" => SameShape(last.input, last.output, last.threshold)

\* A string with a character across byte 500 was trimmed beside a value that
\* holds a string of exactly threshold bytes
C21_Witness ==
    /\ last.op = "trim_value"
    /\ last.times = 1
    /\ last.input.kind = "array"
    /\ last.input.items[1] = JString(Ascii(499) \o Str("euro3", 3, 200))
    /\ last.output.items[1] = JString(Ascii(499) \o Marker(1099))
    /\ last.input.items[3] = JString(Ascii(last.threshold))
    /\ last.output.items[3] = last.input.items[3]

\* Every value under a prompt key of old is the same in new, and its sibling
\* strings above the threshold are not
RECURSIVE PromptKept(_, _, _)
PromptKept(old, new, threshold) ==
    CASE old.kind = "object" ->
            \A key \in DOMAIN old.fields :
                IF key = "prompt" THEN new.fields[key] = old.fields[key]
                ELSE /\ PromptKept(old.fields[key], new.fields[key], threshold)
                     /\ (/\ "prompt" \in DOMAIN old.fields
                         /\ old.fields[key].kind = "string"
                         /\ str_len(old.fields[key].s) > threshold)
                            => new.fields[key] # old.fields[key]
      [] old.kind = "array" ->
            \A i \in DOMAIN old.items :
                PromptKept(old.items[i], new.items[i], threshold)
      [] OTHER -> TRUE

\* C22: at every depth the value under a key named prompt comes out of
\* trim_value as it went in, whatever its length, and the sibling strings
\* above the threshold are trimmed.
C22_PromptKept ==
    last.op = "trim_value" => PromptKept(last.input, last.output, last.threshold)

\* A prompt above the threshold three objects deep, beside a string that was
\* trimmed
C22_Witness ==
    /\ last.op = "trim_value"
    /\ last.times = 1
    /\ last.input.kind = "object"
    /\ DOMAIN last.input.fields = {"input"}
    /\ LET old == last.input.fields.input.fields.nested.fields
           new == last.output.fields.input.fields.nested.fields
       IN  /\ str_len(old.prompt.s) > last.threshold
           /\ new.prompt = old.prompt
           /\ str_len(old.deep.s) > last.threshold
           /\ new.deep # old.deep

\* C23: trim_value applied to its own output, at the same threshold, returns
\* it unchanged.
C23_Idempotent ==
    (last.op = "trim_value" /\ last.times >= 2) => last.output = last.input

\* The second application, on a value the first one had changed
C23_Witness ==
    /\ last.op = "trim_value"
    /\ last.times = 2
    /\ last.output = last.input
    /\ last.input.kind = "object"
    /\ "other" \in DOMAIN last.input.fields
    /\ last.input.fields.other.s # <<>>
    /\ <<last.input.fields.other.s[Len(last.input.fields.other.s)]>> = Marker(4097)

IdentifiedRecords(bytes) ==
    \A i \in DOMAIN bytes :
        bytes[i][1] \in {"P", "R"}
            => bytes[i][2].sessionId # "" /\ bytes[i][2].uuid # None

\* What the claim compares of the rows and of the cursor of a file
LinesOf(d, path) ==
    {<<l.session_id, l.uuid, l.line_number, l.type, l.content>> :
        l \in {x \in d.lines : x.file_path = path}}
SessionOf(d, path) ==
    {<<row.line_count, row.byte_offset>> :
        row \in {x \in d.sessions : x.file_path = path}}

\* One full index of the file as it is, on a store just created
FullIndex(path) ==
    LET fresh == init_schema(EmptyTables)
    IN  index_transcript_file([db |-> fresh, sp |-> 0, committed |-> fresh],
                              path, fs[path], 0, 1, NoFault).c.db

\* C25: on a file of records with sessionId and uuid, the ingest of a prefix
\* and then of what was appended leaves the lines rows, line_count and
\* byte_offset that one full index of the file leaves, and every row of the
\* delta has an id above every row that was there.
C25_DeltaEqualsFull ==
    [][(last'.op = "update_transcripts"
          /\ \A i \in DOMAIN TranscriptFiles : IdentifiedRecords(fs[TranscriptFiles[i]]))
        => \A i \in DOMAIN TranscriptFiles :
              LET path == TranscriptFiles[i]
              IN  /\ LinesOf(db', path) = LinesOf(FullIndex(path), path)
                  /\ SessionOf(db', path) = SessionOf(FullIndex(path), path)
                  /\ \A new \in db'.lines : \A old \in db.lines :
                        new.id \notin {l.id : l \in db.lines} => new.id > old.id]_vars

\* A delta ingest from a cursor inside the file added a row to those of the
\* first pass
C25_Witness ==
    /\ last.op = "update_transcripts"
    /\ IdentifiedRecords(fs[TranscriptFiles[1]])
    /\ res[TranscriptFiles[1]].from > 0
    /\ res[TranscriptFiles[1]].indexed = 1
    /\ Cardinality(db.lines) = 2
    /\ \E row \in db.sessions : row.line_count = 2 /\ row.byte_offset = 6

\* The cursor of the file lies inside a record: the bytes after it are the
\* rest of a record whose first part was read by an earlier ingest
InsideRecord(d, path) ==
    LET cur == CursorOf(d, path)
    IN  /\ cur # None
        /\ cur[1].byte_offset > 0
        /\ cur[1].byte_offset < Len(fs[path])
        /\ fs[path][cur[1].byte_offset + 1][1] = "R"

\* Where the complete records start that follow the first newline after
\* offset o
CompleteAfter(bytes, o) ==
    {i \in (o + 3)..(Len(bytes) - 2) :
        /\ bytes[i][1] = "P"
        /\ bytes[i + 1] = <<"R", bytes[i][2]>>
        /\ bytes[i + 2] = <<"NL">>}

LineReflects(l, rec) ==
    /\ l.session_id = rec.sessionId /\ l.type = rec.type
    /\ l.timestamp = rec.timestamp /\ l.content = rec.text
    /\ rec.uuid # None => l.uuid = rec.uuid[1]

EventReflects(h, rec) ==
    /\ h.session_id = rec.sessionId /\ h.event_type = rec.eventType
    /\ h.timestamp = rec.timestamp /\ h.turn_id = rec.turnId
    /\ h.turn_sequence = rec.turnSequence /\ h.session_name = rec.sessionName

\* C26: a delta ingest whose cursor lies inside a record discards through the
\* first newline: every row it inserts is that of a complete record after
\* that newline, and every such record (of a type that is indexed) has its
\* row among them.
C26_PartialFirstLineSkipped ==
    [][/\ (last'.op = "update_transcripts" /\ InsideRecord(db, TranscriptFiles[1]))
          => LET path == TranscriptFiles[1]
                 o == CursorOf(db, path)[1].byte_offset
                 new == {l \in db'.lines : l.id > db.seq_lines}
                 after == CompleteAfter(fs[path], o)
             IN  /\ \A l \in new : \E i \in after : LineReflects(l, fs[path][i][2])
                 /\ \A i \in after :
                       fs[path][i][2].type \notin SKIP_TYPES
                           => \E l \in new : /\ l.file_path = path
                                             /\ LineReflects(l, fs[path][i][2])
       /\ (last'.op = "update_hook_index" /\ InsideRecord(db, HookFiles[1]))
          => LET path == HookFiles[1]
                 o == CursorOf(db, path)[1].byte_offset
                 new == {h \in db'.hook_events : h.id > db.seq_hooks}
                 after == CompleteAfter(fs[path], o)
             IN  /\ \A h \in new : \E i \in after : EventReflects(h, fs[path][i][2])
                 /\ \A i \in after :
                       \E h \in new : /\ h.file_path = path
                                      /\ EventReflects(h, fs[path][i][2])
                 /\ Cardinality(new) = Cardinality(after)]_vars

\* A delta ingest began at the rest of a record, made no row of it and
\* indexed the record that followed
C26_Witness ==
    LET path == TranscriptFiles[1]
    IN  /\ last.op = "update_transcripts"
        /\ res[path].status = "ok"
        /\ res[path].from = 1
        /\ fs[path] = << <<"P", U1>>, <<"R", U1>>, <<"NL">> >> \o RecordLine(NoUuid)
        /\ {l.uuid : l \in db.lines} = {"line-3"}

\* The tool events of a session that carry a turn_id, and the first timestamp
\* of the group of an event
ToolEvents(d, session_id) ==
    {e \in d.hook_events :
        /\ e.session_id = session_id
        /\ e.event_type \in {"PreToolUse", "PostToolUse"}
        /\ e.turn_id # None}
GroupStart(d, e) ==
    LET group == {x \in ToolEvents(d, e.session_id) :
                     x.turn_id = e.turn_id /\ x.turn_sequence = e.turn_sequence}
    IN  CHOOSE t \in {x.timestamp : x \in group} :
            \A x \in group : t <= x.timestamp

\* The line lies in the window of the group of tool event e: from the start
\* of the group to the start of the group of the next turn_sequence, if any
InToolWindow(d, l, e) ==
    /\ GroupStart(d, e) <= l.timestamp
    /\ \A n \in ToolEvents(d, e.session_id) :
          (/\ n.turn_sequence[1] > e.turn_sequence[1]
           /\ \A m \in ToolEvents(d, e.session_id) :
                 m.turn_sequence[1] > e.turn_sequence[1]
                     => n.turn_sequence[1] <= m.turn_sequence[1])
              => l.timestamp < GroupStart(d, n)

KnownNames(d, session_id) ==
    LET starts == {e \in d.hook_events :
                      /\ e.session_id = session_id
                      /\ e.event_type = "SessionStart"
                      /\ e.session_name # None}
    IN  {e.session_name : e \in {x \in starts :
                                    \A y \in starts : y.timestamp <= x.timestamp}}

\* C28: after correlate_lines_to_turns, every line left without a turn_id
\* carries the session name known for its session, in the Stop branch, in the
\* tool-event fallback and when there are neither.
C28_NameBackfilled ==
    last.op = "correlate_lines_to_turns" =>
        \A l \in db.lines :
            (l.turn_id = None /\ KnownNames(db, l.session_id) # {})
                => l.session_name \in KnownNames(db, l.session_id)

\* The Stop events of the session, with turn_id and turn_sequence, at or
\* after the timestamp of the line
StopsFrom(d, l) ==
    {e \in d.hook_events :
        /\ e.session_id = l.session_id /\ e.event_type = "Stop"
        /\ e.turn_id # None /\ e.turn_sequence # None
        /\ e.timestamp >= l.timestamp}

C30_RowsFrame ==
    [][/\ last'.op \in {"index_all_transcripts", "update_transcripts", "update_hook_index"}
          => \A l \in db.lines : l \in db'.lines
       /\ last'.op = "correlate_lines_to_turns"
          => \A l \in db.lines :
                \E new \in db'.lines :
                    new = [l EXCEPT !.turn_id = new.turn_id,
                                    !.turn_sequence = new.turn_sequence,
                                    !.session_name = new.session_name]]_vars

\* The bytes of the file after its cursor hold a line whose read fails
UnreadableAhead(d, path) ==
    LET cur == CursorOf(d, path)
        offset == IF cur = None THEN 0 ELSE cur[1].byte_offset
    IN  \E i \in (offset + 1)..Len(fs[path]) : fs[path][i][1] = "X"

\* C31: when the read of a line fails during the ingest of a file, the
\* ingest of that file returns an error and leaves the file's cursor row as
\* it was, so that the next delta pass reads from the old offset again.
C31_ReadErrorAborts ==
    [][\A p \in Paths :
          (/\ last'.op = (IF p = TranscriptFiles[1] THEN "update_transcripts"
                          ELSE "update_hook_index")
           /\ UnreadableAhead(db, p))
             => /\ res'[p].status = "err"
                /\ CursorOf(db', p) = CursorOf(db, p)]_vars

\* The byte positions at which the lines of the file start that lie after
\* offset o and are not blank
StartsAfter(bytes, o) ==
    {i \in (o + 1)..Len(bytes) :
        /\ bytes[i] # <<"NL">>
        /\ i = 1 \/ bytes[i - 1] = <<"NL">>}

\* The line at position i is a whole record / is not JSON
RecordAt(bytes, i) ==
    /\ i + 2 <= Len(bytes)
    /\ bytes[i][1] = "P" /\ bytes[i + 1] = <<"R", bytes[i][2]>>
    /\ bytes[i + 2] = <<"NL">>
MalformedAt(bytes, i) == bytes[i] = <<"G">>

\* C32: a non-empty line that is not JSON does not fail the file: the call
\* returns Ok, no row carries the line's number, the line is counted (the
\* records after it are numbered one further, line_count counts it), every
\* valid record read in the same call has its row and the cursor is at the
\* file size.
C32_MalformedSkipped ==
    [][LET path == TranscriptFiles[1]
           bytes == fs[path]
           cur == CursorOf(db, path)
           full == last'.op = "index_all_transcripts"
           o == IF full \/ cur = None THEN 0 ELSE cur[1].byte_offset
           base == IF full \/ cur = None THEN 0 ELSE cur[1].line_count
           starts == StartsAfter(bytes, o)
           \* the first line of a delta read is counted also when it is blank
           counted == starts \cup (IF o > 0 /\ o < Len(bytes) THEN {o + 1} ELSE {})
           number(i) == base + Cardinality({j \in counted : j <= i})
           new == {l \in db'.lines : l.id > db.seq_lines}
       IN  (/\ last'.op \in {"index_all_transcripts", "update_transcripts"}
            /\ \E i \in starts : MalformedAt(bytes, i))
              => /\ res'[path].status = "ok"
                 /\ \A i \in starts :
                       MalformedAt(bytes, i)
                           => ~\E l \in new : l.line_number = number(i)
                 /\ \A i \in starts :
                       (/\ RecordAt(bytes, i)
                        /\ bytes[i][2].type \notin SKIP_TYPES
                        /\ ~\E j \in starts : j > i /\ bytes[j] = bytes[i])
                           => \E l \in new : /\ l.line_number = number(i)
                                             /\ l.content = bytes[i][2].text
                                             /\ l.timestamp = bytes[i][2].timestamp
                 /\ CursorOf(db', path) # None
                 /\ CursorOf(db', path)[1].line_count = base + Cardinality(counted)
                 /\ CursorOf(db', path)[1].byte_offset = Len(bytes)]_vars

\* One call read a malformed line and then a record: the record has line
\* number 2 and its row, the cursor is at the end of the file
C32_Witness ==
    LET path == TranscriptFiles[1]
    IN  /\ last.op \in {"index_all_transcripts", "update_transcripts"}
        /\ fs[path] = GarbageLine \o RecordLine(U1)
        /\ res[path].status = "ok" /\ res[path].from = 0 /\ res[path].indexed = 1
        /\ \E l \in db.lines : l.uuid = "u1" /\ l.line_number = 2
        /\ CursorOf(db, path)[1].byte_offset = 5
        /\ CursorOf(db, path)[1].line_count = 2

\* C33: on a store at version v, 4 <= v <= 10, init_schema runs the steps
\* v -> v+1, ..., 9 -> 10 in ascending order, each once, and leaves version
\* 10; on a store at version 10 it runs no step and leaves the store as it is.
C33_MigrationsInOrder ==
    [][(/\ last'.op = "open_or_create"
        /\ last'.fault = NoMigrationFault
        /\ committed.version # None
        /\ committed.version[1] \in 4..DB_VERSION)
          => LET v == committed.version[1]
             IN  /\ last'.ok
                 /\ last'.steps = [i \in 1..(DB_VERSION - v) |-> v + i - 1]
                 /\ db'.version = Some(DB_VERSION)
                 /\ v = DB_VERSION => db' = committed]_vars

\* C34: when a statement of a migration step fails while the writer opens the
\* store, open_or_create returns an error and the store keeps the version,
\* the rows and the FTS tables it had before the open.
C34_FailedMigrationLeavesStore ==
    [][(/\ last'.op = "open_or_create"
        /\ last'.fault # NoMigrationFault
        /\ ~init_schema_fails(committed)
        /\ ~last'.ok)
          => /\ db'.version = committed.version
             /\ db'.lines = committed.lines
             /\ db'.lines_fts = committed.lines_fts
             /\ db'.sessions = committed.sessions
             /\ db'.hook_events = committed.hook_events
             /\ db'.hook_events_fts = committed.hook_events_fts
             /\ db'.objects \cap HookFtsObjects = committed.objects \cap HookFtsObjects
             /\ committed' = db']_vars

\* The 1-based position in the file of the line that starts at byte i
LinePosition(bytes, i) == 1 + Cardinality({j \in 1..(i - 1) : bytes[j] = <<"NL">>})

\* C35: every row's line_number is the 1-based position of its record's line
\* in the file, and the cursor's line_count is the number of lines of the
\* file up to the cursor's byte_offset, after full and delta ingests of a
\* file that may hold blank and malformed lines.
C35_LineNumbersArePositions ==
    LET path == TranscriptFiles[1]
        bytes == fs[path]
        cur == CursorOf(db, path)
    IN  /\ \A l \in db.lines :
              l.file_path = path
                  => \E i \in StartsAfter(bytes, 0) :
                        /\ RecordAt(bytes, i)
                        /\ LineReflects(l, bytes[i][2])
                        /\ l.line_number = LinePosition(bytes, i)
        /\ cur # None => cur[1].line_count = NumLines(SubSeq(bytes, 1, cur[1].byte_offset))

\* C36: on an append-only file the byte_offset an ingest stores is not
\* smaller than the end offset of any record it inserted, also when a record
\* is appended between the ingest's size stat and its read; so the rows of a
\* file each have their record below the cursor, and there are no more rows
\* than record lines.
C36_OffsetCoversInserted ==
    /\ LET path == HookFiles[1]
           bytes == fs[path]
           cur == CursorOf(db, path)
           rows == {h \in db.hook_events : h.file_path = path}
       IN  /\ \A h \in rows :
                 /\ cur # None
                 /\ \E i \in StartsAfter(bytes, 0) :
                       /\ RecordAt(bytes, i)
                       /\ EventReflects(h, bytes[i][2])
                       /\ i + 2 <= cur[1].byte_offset
           /\ Cardinality(rows) <= NumLines(bytes)
    /\ LET path == TranscriptFiles[1]
           bytes == fs[path]
           cur == CursorOf(db, path)
           rows == {l \in db.lines : l.file_path = path}
       IN  /\ \A l \in rows :
                 /\ cur # None
                 /\ \E i \in StartsAfter(bytes, 0) :
                       /\ RecordAt(bytes, i)
                       /\ LineReflects(l, bytes[i][2])
                       /\ i + 2 <= cur[1].byte_offset
           /\ Cardinality(rows) <= NumLines(bytes)

\* C37: a delta ingest that processes no timestamped record (only malformed
\* or blank lines) leaves the stored sessions.last_timestamp as it was and
\* does not reset it to NULL.
C37_LastTimestampKept ==
    [][LET path == TranscriptFiles[1]
           bytes == fs[path]
           cur == CursorOf(db, path)
       IN  (/\ last'.op = "update_transcripts"
            /\ cur # None
            /\ cur[1].byte_offset > 0
            /\ cur[1].byte_offset < Len(bytes)
            /\ ~\E i \in StartsAfter(bytes, cur[1].byte_offset) :
                    RecordAt(bytes, i) /\ bytes[i][2].timestamp # 0)
              => /\ CursorOf(db', path) # None
                 /\ CursorOf(db', path)[1].last_timestamp = cur[1].last_timestamp]_vars

\* C38: for every file, sessions.line_count is at least the largest
\* line_number of the file's rows in lines, in every reachable state, also
\* after the migration v9 -> v10 has recomputed line_count.
C38_LineCountCoversRows ==
    \A row \in db.sessions :
        \A l \in db.lines :
            l.file_path = row.file_path => l.line_number <= row.line_count

\* C39: a successful ingest of a file is committed (its rows and its cursor
\* row are what a read-only handle sees), also when an earlier ingest of
\* another file failed mid-batch on the same writer connection.
C39_LaterIngestsCommit ==
    [][\A path \in Paths :
          (/\ last'.op \in IngestOf(path)
           /\ res'[path].status = "ok"
           /\ res'[path].indexed > 0)
             => /\ RowsFrom(committed', path) = RowsFrom(db', path)
                /\ CursorOf(committed', path) = CursorOf(db', path)]_vars

\* C40: the tail mode prints every event of the session that matches its
\* filters exactly once: no id is printed twice, and when a turn of the loop
\* has run, every matching event committed by then has been printed, also
\* one inserted between the listing and the initialisation of the cursor.
\* (The listing is not cut within the bounds: fewer than TailLimit rows.)
C40_TailPrintsEachOnce ==
    /\ \A i \in DOMAIN tail.received : \A j \in DOMAIN tail.received :
          i # j => tail.received[i] # tail.received[j]
    /\ last.op = "get_hook_events_after_id"
          => \A h \in MatchingHookEvents(committed, tail.session_id, tail.event_types, None) :
                \E i \in DOMAIN tail.received : tail.received[i] = h.id

====
